---------------------------- MODULE Spec2Model ----------------------------
(***************************************************************************)
(* Model of the Hirnu fine-tuning data preparation and training scripts:   *)
(*   src/src/data/dataset_builder.py  (DatasetBuilder, the splitter)       *)
(*   src/src/data/validator.py        (DatasetValidator)                   *)
(*   src/src/data/converter.py        (MLXFormatConverter)                 *)
(*   src/src/data/preprocessor.py     (HirnuPreprocessor)                  *)
(*   src/scripts/prepare_data.py      (main)                               *)
(*   src/scripts/train.py             (main)                               *)
(*   src/scripts/inference.py         (interactive_mode)                   *)
(*   src/src/training/callbacks.py    (the training callbacks)             *)
(*   src/src/evaluation/metrics.py    (HirnuMetrics, TranslationMetrics)   *)
(*   src/src/training/trainer.py      (calculate_total_iterations)         *)
(* Each component has its own specification over its own variables; the    *)
(* variables of the other components stay at their initial values.         *)
(***************************************************************************)
EXTENDS Integers, Sequences, FiniteSets, TLC

VARIABLES
    split_ratios,   \* DatasetBuilder.split_ratios: train/test/valid/random_seed
    examples,       \* the caller's list object handed to create_splits
    rng,            \* state of the process-wide generator of module random
    last,           \* outcome of the latest create_splits call
    ref,            \* outcome of an earlier create_splits call kept by the caller
    format_type,    \* config["format"]["type"], read by converter and validator
    jsonl,          \* a JSONL file on disk: whether it exists, and its lines
    saved,          \* outcome of the latest convert_and_save call
    report,         \* outcome of validate_jsonl_file on the file as it is now
    preprocessing_opts, \* HirnuPreprocessor.preprocessing_opts
    raw,            \* the raw data directories: grammar, vocabulary, texts
    processed,      \* outcome of process_all on the directories as they are now
    args,           \* prepare_data: --validate-only and --skip-validation
    pc,             \* prepare_data: the step main() is at
    trace,          \* prepare_data: the stage calls main() has made, in order
    exit_code,      \* prepare_data: how main() ended
    outputs,        \* the files train.jsonl, test.jsonl and valid.jsonl
    train_main,     \* train.py: a run of main()
    interactive_mode,    \* inference.py: the loop of interactive_mode
    checkpoint_callback, \* a CheckpointCallback and its checkpoint directory
    early_stopping, \* an EarlyStoppingCallback
    metrics_logger, \* a MetricsLogger and its file metrics.jsonl
    metrics,        \* metrics.py: the lists handed to a metric, and its outcome
    trainer         \* a HirnuTrainer: its training file, batch size and epochs

splitVars == <<split_ratios, examples, rng, last, ref>>

jsonlVars == <<format_type, jsonl, saved, report>>

preVars == <<preprocessing_opts, raw, processed>>

prepVars == <<args, pc, trace, exit_code, outputs>>

evalVars == <<metrics, trainer>>

laterVars == <<train_main, interactive_mode, checkpoint_callback,
               early_stopping, metrics_logger, evalVars>>

vars == <<splitVars, jsonlVars, preVars, prepVars, laterVars>>

\* What the actions of one component leave alone.
notSplit == <<jsonlVars, preVars, prepVars, laterVars>>

notJsonl == <<splitVars, preVars, prepVars, laterVars>>

notPre == <<splitVars, jsonlVars, prepVars, laterVars>>

----------------------------------------------------------------------------
(* Generic helpers *)

Abs(x) == IF x < 0 THEN -x ELSE x

Min(a, b) == IF a < b THEN a ELSE b

Max(a, b) == IF a > b THEN a ELSE b

\* Python's int() on a quotient num/den (den > 0): truncation toward zero.
PyInt(num, den) == IF num >= 0 THEN num \div den ELSE -((-num) \div den)

\* One bound of a Python slice: a negative index counts from the end, and the
\* result is clamped to 0..len.
PyClamp(ix, len) == IF ix < 0 THEN Max(ix + len, 0) ELSE Min(ix, len)

\* Python's seq[start:stop] (0-based, stop exclusive) on a 1-based sequence.
PySlice(seq, start, stop) ==
    LET lo == PyClamp(start, Len(seq))
        hi == PyClamp(stop, Len(seq))
    IN  IF lo >= hi THEN <<>> ELSE SubSeq(seq, lo + 1, hi)

\* The number of positions of seq holding x.
Count(seq, x) == Cardinality({i \in DOMAIN seq : seq[i] = x})

\* seq and other hold the same elements the same number of times.
SameBag(seq, other) ==
    /\ Len(seq) = Len(other)
    /\ \A i \in DOMAIN seq : Count(seq, seq[i]) = Count(other, seq[i])

----------------------------------------------------------------------------
(* The splitter: DatasetBuilder *)

\* Bounds of the splitter's model.
MaxLen == 4
RngMod == 8
MaxSeed == 1

\* 1e-6 is 1/TolDen; ratios are counted in units of 1/RatioUnit, a tenth of
\* the tolerance, so that sums just inside and just outside it exist.
TolDen == 1000000
RatioUnit == 10 * TolDen

\* random_seed defaults to 42.
DefaultSeed == 42

Seeds == {DefaultSeed} \cup (1..MaxSeed)

\* Ratios in units of 1/RatioUnit: -0.5, 0, 0.1, 0.15, 0.5, 0.7, 0.8, 1.0 and
\* neighbours of 0.1 at distance 0.5e-6 and 1e-6, around the tolerance.
TrainRatios == {0, 7 * (RatioUnit \div 10), 8 * (RatioUnit \div 10), RatioUnit}
TestRatios == {-(RatioUnit \div 2), RatioUnit \div 10, 15 * (RatioUnit \div 100)}
ValidRatios == {RatioUnit \div 10, 15 * (RatioUnit \div 100),
                RatioUnit \div 10 + 5, RatioUnit \div 10 + 10,
                RatioUnit \div 10 - 10, RatioUnit \div 2}

\* The generator of module random, as a linear congruential generator: what
\* matters is that seed() fixes the state and every draw advances it.
RngSeed(seed) == seed % RngMod

RngNext(s) == (5 * s + 3) % RngMod

\* random's _randbelow(n) drawn from state s: taken from the high bits, the
\* low bits of a congruential generator being the weak ones.
RandBelow(n, s) == (s \div 2) % n

Swap(seq, i, j) == [seq EXCEPT ![i] = seq[j], ![j] = seq[i]]

\* random.shuffle(x): for i in reversed(range(1, len(x))): j = randbelow(i+1);
\* x[i], x[j] = x[j], x[i].  i is the 0-based index; returns the list and
\* the generator state after the draws.
RECURSIVE ShuffleFrom(_, _, _)
ShuffleFrom(seq, i, s) ==
    IF i < 1 THEN [list |-> seq, rng |-> s]
    ELSE CHOOSE done \in
             { ShuffleFrom(step.list, i - 1, step.rng) :
                 step \in {[list |-> Swap(seq, i + 1, RandBelow(i + 1, s) + 1),
                            rng |-> RngNext(s)]} } : TRUE

Shuffle(seq, s) == ShuffleFrom(seq, Len(seq) - 1, s)

\* A create_splits that forgets to seed: the shuffle draws from whatever state
\* the generator is in.
SeedCallDropped(seed, s) == s

\* Line 39: random.seed(self.random_seed).
SeedCall(seed, s) == RngSeed(seed)

\* The ratio check without abs(): a sum far below 1.0 passes.
RatiosOkNoAbs(r) == r.train + r.test + r.valid - RatioUnit < RatioUnit \div TolDen

\* Line 49: abs(train + test + valid - 1.0) < 1e-6, in units of 1/RatioUnit
\* (1e-6 is RatioUnit \div TolDen units).
RatiosOk(r) == Abs(r.train + r.test + r.valid - RatioUnit) < RatioUnit \div TolDen

\* Lines 54-60: the cut of the shuffled list.
Cut(list, r) ==
    LET total     == Len(list)
        train_end == PyInt(total * r.train, RatioUnit)
        test_end  == train_end + PyInt(total * r.test, RatioUnit)
    IN  [train |-> PySlice(list, 0, train_end),
         test  |-> PySlice(list, train_end, test_end),
         valid |-> PySlice(list, test_end, total)]

NoCall == [kind |-> "none"]

\* create_splits(examples) on the list and with the generator in state s:
\* seeds the generator, shuffles the list in place, checks the ratios and
\* cuts.  Gives the list and the generator state it leaves, and the outcome;
\* dirty records whether the generator was in another state than the seeded
\* one when the call was made.
create_splits(ratios, list, s) ==
    LET sh  == Shuffle(list, SeedCall(ratios.random_seed, s))
        dirty == s # RngSeed(ratios.random_seed)
    IN  [list |-> sh.list, rng |-> sh.rng,
         out |-> IF RatiosOk(ratios)
                 THEN [kind |-> "ok", input |-> list, dirty |-> dirty,
                       parts |-> Cut(sh.list, ratios)]
                 ELSE [kind |-> "ValueError", input |-> list, dirty |-> dirty]]

\* A create_splits call by a caller that holds the list examples.  keep: the
\* caller keeps this outcome to compare a later one with.
CreateSplits(keep) ==
    LET call == create_splits(split_ratios, examples, rng)
    IN  /\ examples' = call.list
        /\ rng' = call.rng
        /\ last' = call.out
        /\ ref' = IF keep THEN call.out ELSE ref
        /\ UNCHANGED <<split_ratios, notSplit>>

\* Any other use of module random in the process advances the generator.
OtherRandomCall ==
    /\ rng' = RngNext(rng)
    /\ UNCHANGED <<split_ratios, examples, last, ref, notSplit>>

\* The caller builds a list equal to its first one again.
CallerRebuild ==
    /\ examples' = [i \in 1..Len(examples) |-> i]
    /\ examples' # examples
    /\ UNCHANGED <<split_ratios, rng, last, ref, notSplit>>

Sources == {"grammar", "vocabulary", "texts"}

NoDir == [exists |-> FALSE, broken |-> FALSE, lines |-> <<>>]

\* min_text_length and max_text_length default to 10 and 4096.
DefaultMinLength == 10
DefaultMaxLength == 4096

NoFile == [exists |-> FALSE, lines |-> <<>>]

\* The components at rest: the default configuration, no call made, no file
\* and no directory there.
DefaultRatios ==
    [train |-> 8 * (RatioUnit \div 10), test |-> RatioUnit \div 10,
     valid |-> RatioUnit \div 10, random_seed |-> DefaultSeed]

NoResult == [kind |-> "none"]

DefaultOptions ==
    [normalize_whitespace |-> TRUE, min_text_length |-> DefaultMinLength,
     max_text_length |-> DefaultMaxLength]

NoDirs == [src \in Sources |-> NoDir]

NoArgs == [validate_only |-> FALSE, skip_validation |-> FALSE]

Running == [kind |-> "running", code |-> -1, what |-> "none"]

NoOutputs == [f \in {"train", "test", "valid"} |-> NoFile]

TrainAtRest ==
    [args |-> [dry_run |-> FALSE, resume_from |-> FALSE],
     env |-> [train_data |-> FALSE, valid_data |-> FALSE, config |-> "ok"],
     pc |-> "start", trace |-> <<>>, exit |-> Running]

InteractiveAtRest == [pc |-> "input", out |-> "Commands", interrupted |-> FALSE]

\* CheckpointCallback(checkpoint_dir) with its defaults; saved lists every
\* step _save_checkpoint was called for.
CheckpointAtRest ==
    [save_every |-> 500, keep_last_n |-> 3, checkpoints |-> <<>>, saved |-> <<>>]

\* EarlyStoppingCallback() with its defaults (metric values and min_delta
\* are counted in thousandths, so 0.001 is 1); out lists the epochs of the
\* "Early stopping triggered" messages, calls the on_epoch_end calls made.
Infinity == [kind |-> "inf", n |-> 0]
MinusInfinity == [kind |-> "-inf", n |-> 0]
EarlyStoppingAtRest ==
    [patience |-> 3, min_delta |-> 1, mode |-> "min", best_value |-> Infinity,
     wait |-> 0, stopped_epoch |-> 0, out |-> <<>>, calls |-> <<>>]

\* MetricsLogger(log_dir): no start time, metrics.jsonl as it was found (here
\* empty); now counts the readings of the clock, calls lists the calls made.
None == [kind |-> "None", d |-> <<>>]
LoggerAtRest ==
    [start_time |-> None, now |-> 0, metrics_file |-> <<>>, calls |-> <<>>]

\* No metric has been called.
MetricsAtRest ==
    [english_inputs |-> <<>>, predictions |-> <<>>, references |-> <<>>,
     outcome |-> NoResult]

\* A HirnuTrainer with the default batch_size and num_epochs, its training
\* file not readable.
TrainerAtRest ==
    [train_file |-> [readable |-> FALSE, count |-> 0],
     batch_size |-> 4, num_epochs |-> 3, outcome |-> NoResult]

SplitInit ==
    /\ split_ratios \in [train : TrainRatios, test : TestRatios,
                         valid : ValidRatios, random_seed : Seeds]
    /\ \E n \in 0..MaxLen : examples = [i \in 1..n |-> i]
    /\ rng = 0
    /\ last = NoCall
    /\ ref = NoCall
    /\ format_type = "chat"
    /\ jsonl = NoFile
    /\ saved = NoResult
    /\ report = NoResult
    /\ preprocessing_opts = DefaultOptions
    /\ raw = NoDirs
    /\ processed = NoResult
    /\ args = NoArgs
    /\ pc = "start"
    /\ trace = <<>>
    /\ exit_code = Running
    /\ outputs = NoOutputs
    /\ train_main = TrainAtRest
    /\ interactive_mode = InteractiveAtRest
    /\ checkpoint_callback = CheckpointAtRest
    /\ early_stopping = EarlyStoppingAtRest
    /\ metrics_logger = LoggerAtRest
    /\ metrics = MetricsAtRest
    /\ trainer = TrainerAtRest

SplitNext ==
    \/ \E keep \in BOOLEAN : CreateSplits(keep)
    \/ OtherRandomCall
    \/ CallerRebuild

\* The other components at rest.
SpecSplit == SplitInit /\ [][SplitNext]_vars

\* The three partitions of an outcome, one after the other.
Parts(o) == o.parts.train \o o.parts.test \o o.parts.valid

RatioSum(r) == r.train + r.test + r.valid

\* C1: whenever create_splits returns, the sizes of the three partitions sum
\* to the length of the input and the partitions together hold every input
\* example exactly once.
C1_PartitionExact ==
    last.kind = "ok" =>
        /\ Len(last.parts.train) + Len(last.parts.test) + Len(last.parts.valid)
               = Len(last.input)
        /\ SameBag(Parts(last), last.input)

\* C1 holds of the configurations whose three ratios are all >= 0.
C1_PartitionExactNonNegative ==
    (last.kind = "ok" /\ split_ratios.train >= 0 /\ split_ratios.test >= 0
        /\ split_ratios.valid >= 0) =>
        /\ Len(Parts(last)) = Len(last.input)
        /\ SameBag(Parts(last), last.input)

\* C2: create_splits raises ValueError exactly when the ratios do not sum to
\* 1.0 within 1e-6 (|sum - 1| >= 1e-6), and returns three partitions otherwise.
C2_RaisesIffRatiosOff ==
    last.kind # "none" =>
        /\ last.kind = "ValueError"
              <=> \/ RatioSum(split_ratios) >= RatioUnit + RatioUnit \div TolDen
                  \/ RatioSum(split_ratios) <= RatioUnit - RatioUnit \div TolDen
        /\ last.kind # "ValueError"
              => last.kind = "ok" /\ DOMAIN last.parts = {"train", "test", "valid"}

\* C2 witness: a call raised on a sum exactly 1e-6 above 1.0, the edge of the
\* tolerance.
C2_Witness ==
    /\ last.kind = "ValueError"
    /\ RatioSum(split_ratios) - RatioUnit = RatioUnit \div TolDen
    /\ Len(last.input) >= 2

\* C9: two create_splits calls on equal input sequences return identical
\* train, test and valid partitions, whatever the generator state before each.
C9_Deterministic ==
    (last.kind # "none" /\ ref.kind # "none" /\ last.input = ref.input) =>
        /\ last.kind = ref.kind
        /\ last.kind = "ok" => last.parts = ref.parts

\* C9 witness: two calls on the same input of three or more examples, one
\* made with the generator in its seeded state and one with it in another
\* state, both returned partitions that are not in the input's order.
C9_Witness ==
    /\ last.kind = "ok" /\ ref.kind = "ok"
    /\ last.input = ref.input
    /\ last.dirty # ref.dirty
    /\ Len(last.input) >= 3
    /\ SameBag(Parts(last), last.input)
    /\ Parts(last) # last.input

\* C10: a create_splits call leaves the caller's list (its members and their
\* order) and the builder's fields unchanged.
C10_CreateSplitsStateless ==
    [][(\E keep \in BOOLEAN : CreateSplits(keep)) =>
          (examples' = examples /\ split_ratios' = split_ratios)]_vars


----------------------------------------------------------------------------
(* JSON: values, json.dumps and json.loads *)

\* A string is a sequence of atoms (words and separators); a key such as
\* "messages" is the one-atom string <<"messages">>.
S(atom) == <<atom>>

\* Python values that json.loads can return, tagged by type.
JNull == [t |-> "null"]

JNum(n) == [t |-> "num", v |-> n]

JStr(str) == [t |-> "str", v |-> str]

JList(elems) == [t |-> "list", v |-> elems]

\* A dict: its items in insertion order, keys distinct.
JObj(items) == [t |-> "obj", v |-> items]

Item(key, val) == [k |-> key, v |-> val]

\* A line of a JSONL file is a sequence of tokens: punctuation, literals, or
\* text that is no JSON token at all.
P(ch) == [t |-> "p", v |-> ch]

IsP(tok, ch) == tok.t = "p" /\ tok.v = ch

Bare == [t |-> "bare"]

HasKey(items, key) == \E i \in DOMAIN items : items[i].k = key

\* d[key] of a dict that holds key.
GetKey(items, key) ==
    items[CHOOSE i \in DOMAIN items : items[i].k = key].v

\* d[key] = val: replaces the value of a key already there, appends otherwise.
DictSet(items, key, val) ==
    IF HasKey(items, key)
    THEN [i \in DOMAIN items |->
             IF items[i].k = key THEN Item(key, val) ELSE items[i]]
    ELSE Append(items, Item(key, val))

\* json.dumps(value): the tokens of the line written.
RECURSIVE Dumps(_), DumpsElems(_), DumpsItems(_)
Dumps(val) ==
    CASE val.t = "list" -> <<P("[")>> \o DumpsElems(val.v) \o <<P("]")>>
      [] val.t = "obj"  -> <<P("{")>> \o DumpsItems(val.v) \o <<P("}")>>
      [] OTHER          -> <<val>>

DumpsElems(elems) ==
    IF elems = <<>> THEN <<>>
    ELSE IF Len(elems) = 1 THEN Dumps(elems[1])
    ELSE Dumps(elems[1]) \o <<P(",")>> \o DumpsElems(Tail(elems))

DumpsItems(items) ==
    IF items = <<>> THEN <<>>
    ELSE LET one == <<JStr(items[1].k), P(":")>> \o Dumps(items[1].v)
         IN  IF Len(items) = 1 THEN one
             ELSE one \o <<P(",")>> \o DumpsItems(Tail(items))

ParseFail == [ok |-> FALSE]

ParseOk(val, rest) == [ok |-> TRUE, val |-> val, rest |-> rest]

\* The recursive-descent decoder of json.loads.
RECURSIVE ParseValue(_), ParseElems(_, _), ParseItems(_, _)
ParseValue(toks) ==
    IF toks = <<>> THEN ParseFail
    ELSE LET h == Head(toks)
             r == Tail(toks)
         IN  CASE h.t \in {"num", "str", "null"} -> ParseOk(h, r)
               [] IsP(h, "[") ->
                    IF r # <<>> /\ IsP(Head(r), "]")
                    THEN ParseOk(JList(<<>>), Tail(r))
                    ELSE ParseElems(r, <<>>)
               [] IsP(h, "{") ->
                    IF r # <<>> /\ IsP(Head(r), "}")
                    THEN ParseOk(JObj(<<>>), Tail(r))
                    ELSE ParseItems(r, <<>>)
               [] OTHER -> ParseFail

ParseElems(toks, acc) ==
    LET e == ParseValue(toks)
    IN  IF ~e.ok \/ e.rest = <<>> THEN ParseFail
        ELSE IF IsP(Head(e.rest), ",")
             THEN ParseElems(Tail(e.rest), Append(acc, e.val))
        ELSE IF IsP(Head(e.rest), "]")
             THEN ParseOk(JList(Append(acc, e.val)), Tail(e.rest))
        ELSE ParseFail

ParseItems(toks, acc) ==
    IF Len(toks) < 2 \/ toks[1].t # "str" \/ ~IsP(toks[2], ":") THEN ParseFail
    ELSE LET e == ParseValue(SubSeq(toks, 3, Len(toks)))
         IN  IF ~e.ok \/ e.rest = <<>> THEN ParseFail
             ELSE IF IsP(Head(e.rest), ",")
                  THEN ParseItems(Tail(e.rest), DictSet(acc, toks[1].v, e.val))
             ELSE IF IsP(Head(e.rest), "}")
                  THEN ParseOk(JObj(DictSet(acc, toks[1].v, e.val)), Tail(e.rest))
             ELSE ParseFail

\* json.loads(line): a value, or JSONDecodeError (ok = FALSE) for a blank
\* line, a line that is no JSON text, or text with tokens left over.
Loads(line) ==
    LET p == ParseValue(line)
    IN  IF p.ok /\ p.rest = <<>> THEN [ok |-> TRUE, val |-> p.val]
        ELSE [ok |-> FALSE]

----------------------------------------------------------------------------
(* The validator: DatasetValidator *)

\* sub occurs in str as a contiguous run (Python's `sub in str` on strings).
Substring(sub, str) ==
    \E i \in 1..(Len(str) - Len(sub) + 1) : SubSeq(str, i, i + Len(sub) - 1) = sub

\* Python's `key in example`: key lookup on a dict, element search on a list,
\* substring search on a string, TypeError on a number or None.
PyIn(key, example) ==
    CASE example.t = "obj"  -> IF HasKey(example.v, key) THEN "yes" ELSE "no"
      [] example.t = "list" ->
            IF \E i \in DOMAIN example.v :
                  example.v[i].t = "str" /\ example.v[i].v = key
            THEN "yes" ELSE "no"
      [] example.t = "str"  -> IF Substring(key, example.v) THEN "yes" ELSE "no"
      [] OTHER              -> "TypeError"

Valid == [res |-> "valid"]

Invalid(what) == [res |-> "invalid", error |-> what]

Raised == [res |-> "TypeError"]

Roles == {S("system"), S("user"), S("assistant")}

\* Lines 34-45: the first message that fails a check decides; i is the 0-based
\* index enumerate() gives.
RECURSIVE CheckMessages(_, _)
CheckMessages(msgs, i) ==
    IF i >= Len(msgs) THEN Valid
    ELSE LET msg == msgs[i + 1]
         IN  IF msg.t # "obj" THEN Invalid(<<"Message", i, "is not a dictionary">>)
             ELSE IF ~HasKey(msg.v, S("role"))
                  THEN Invalid(<<"Message", i, "missing 'role' field">>)
             ELSE IF ~HasKey(msg.v, S("content"))
                  THEN Invalid(<<"Message", i, "missing 'content' field">>)
             ELSE IF ~(GetKey(msg.v, S("role")).t = "str"
                       /\ GetKey(msg.v, S("role")).v \in Roles)
                  THEN Invalid(<<"Message", i, "has invalid role">>)
             ELSE CheckMessages(msgs, i + 1)

\* validate_chat_format(example).
validate_chat_format(example) ==
    LET has == PyIn(S("messages"), example)
    IN  IF has = "TypeError" THEN Raised
        ELSE IF has = "no" THEN Invalid(<<"Missing 'messages' field">>)
        ELSE IF example.t # "obj" THEN Raised   \* example["messages"] on a list or str
        ELSE IF GetKey(example.v, S("messages")).t # "list"
             THEN Invalid(<<"'messages' must be a list">>)
        ELSE CheckMessages(GetKey(example.v, S("messages")).v, 0)

\* validate_completion_format(example).
validate_completion_format(example) ==
    LET hasPrompt == PyIn(S("prompt"), example)
    IN  IF hasPrompt = "TypeError" THEN Raised
        ELSE IF hasPrompt = "no" THEN Invalid(<<"Missing 'prompt' field">>)
        ELSE IF PyIn(S("completion"), example) = "no"
             THEN Invalid(<<"Missing 'completion' field">>)
        ELSE Valid

\* validate_text_format(example).
validate_text_format(example) ==
    LET has == PyIn(S("text"), example)
    IN  IF has = "TypeError" THEN Raised
        ELSE IF has = "no" THEN Invalid(<<"Missing 'text' field">>)
        ELSE IF example.t # "obj" THEN Raised   \* example["text"] on a list or str
        ELSE IF GetKey(example.v, S("text")).t # "str"
             THEN Invalid(<<"'text' must be a string">>)
        ELSE Valid

\* validate_example(example): dispatch on self.format_type.
validate_example(fmt, example) ==
    CASE fmt = "chat"       -> validate_chat_format(example)
      [] fmt = "completion" -> validate_completion_format(example)
      [] fmt = "text"       -> validate_text_format(example)
      [] OTHER              -> Invalid(<<"Unknown format type", fmt>>)

\* One line of the loop of validate_jsonl_file (lines 128-141): the verdict on
\* the line; only JSONDecodeError is caught.
LineVerdict(fmt, line) ==
    LET parsed == Loads(line)
    IN  IF ~parsed.ok THEN Invalid(<<"Invalid JSON">>)
        ELSE validate_example(fmt, parsed.val)

\* errors[:10] at line 151.
MaxErrors == 10

\* A slice that keeps every error.
TakeAll(seq, n) == seq

Take(seq, n) == SubSeq(seq, 1, Min(n, Len(seq)))

\* The counters of validate_jsonl_file before the first line (lines 121-124).
Counters0 == [total |-> 0, valid_examples |-> 0, invalid_examples |-> 0,
              errors |-> <<>>, raised |-> FALSE]

\* The loop of validate_jsonl_file over lines i..Len(lines) (i is the 1-based
\* line number of enumerate(f, 1)); a TypeError leaves the loop and the
\* function.
RECURSIVE ValidateLoop(_, _, _, _)
ValidateLoop(fmt, lines, i, c) ==
    IF i > Len(lines) THEN c
    ELSE LET v == LineVerdict(fmt, lines[i])
             n == [c EXCEPT !.total = @ + 1]
         IN  CASE v.res = "valid" ->
                    ValidateLoop(fmt, lines, i + 1,
                                 [n EXCEPT !.valid_examples = @ + 1])
               [] v.res = "invalid" ->
                    ValidateLoop(fmt, lines, i + 1,
                                 [n EXCEPT !.invalid_examples = @ + 1,
                                           !.errors = Append(@, <<i, v.error>>)])
               [] OTHER -> [n EXCEPT !.raised = TRUE]

\* validate_jsonl_file(file_path): the report, or the TypeError that escapes
\* (at: the number of the line that raised it).
validate_jsonl_file(fmt, file) ==
    IF ~file.exists
    THEN [kind |-> "report", valid |-> FALSE, error |-> "File not found",
          total |-> 0, valid_examples |-> 0, invalid_examples |-> 0,
          errors |-> <<>>, found |-> FALSE]
    ELSE LET c == ValidateLoop(fmt, file.lines, 1, Counters0)
         IN  IF c.raised
             THEN [kind |-> "TypeError", at |-> c.total, found |-> TRUE]
             ELSE [kind |-> "report", valid |-> c.invalid_examples = 0,
                   error |-> "", total |-> c.total,
                   valid_examples |-> c.valid_examples,
                   invalid_examples |-> c.invalid_examples,
                   errors |-> Take(c.errors, MaxErrors), found |-> TRUE]

----------------------------------------------------------------------------
(* The converter: MLXFormatConverter *)

Msg(role, content) ==
    JObj(<<Item(S("role"), JStr(S(role))), Item(S("content"), content)>>)

\* to_chat_format(example): an example that has a "messages" key is returned
\* as it is.
to_chat_format(system_msg, example) ==
    IF HasKey(example.v, S("messages")) THEN example
    ELSE LET head == <<Msg("system", system_msg)>>
             messages ==
                 IF HasKey(example.v, S("user")) /\ HasKey(example.v, S("assistant"))
                 THEN head \o <<Msg("user", GetKey(example.v, S("user"))),
                                Msg("assistant", GetKey(example.v, S("assistant")))>>
                 ELSE head
         IN  JObj(<<Item(S("messages"), JList(messages))>>)

\* to_completion_format(example).
to_completion_format(example) ==
    JObj(<<Item(S("prompt"), JStr(<<>>)), Item(S("completion"), JStr(<<>>))>>)

\* to_text_format(example): example.get("content", "").
to_text_format(example) ==
    JObj(<<Item(S("text"),
                IF HasKey(example.v, S("content"))
                THEN GetKey(example.v, S("content")) ELSE JStr(<<>>))>>)

ConvFormats == {"chat", "completion", "text"}

\* convert_example(example) for a known format type (an unknown one raises
\* ValueError).
convert_example(fmt, system_msg, example) ==
    CASE fmt = "chat"       -> to_chat_format(system_msg, example)
      [] fmt = "completion" -> to_completion_format(example)
      [] OTHER              -> to_text_format(example)

\* The lines convert_and_save writes for a list of examples.
WrittenLines(fmt, system_msg, exs) ==
    [i \in DOMAIN exs |-> Dumps(convert_example(fmt, system_msg, exs[i]))]

----------------------------------------------------------------------------
(* JSONL files: written by convert_and_save, read by validate_jsonl_file.   *)
(* report describes the file as it is: a write to the file discards it.    *)

\* Bounds: lines another program appends to a file, examples per save.
MaxLines == 2
MaxExamples == 2

\* config["format"]["chat_template"]["system"].
SystemMsg == JStr(<<"You", " ", "translate">>)

Hello == JStr(S("hello"))

ChatExample ==
    JObj(<<Item(S("messages"),
                JList(<<Msg("system", SystemMsg), Msg("user", Hello),
                        Msg("assistant", Hello)>>))>>)

\* The examples a caller hands to convert_and_save: what the preprocessor
\* emits, a user/assistant pair, a text with content, a content that is a
\* number, "messages" values that are not a well-formed list, the empty dict.
ExampleSamples ==
    { ChatExample,
      JObj(<<Item(S("user"), Hello), Item(S("assistant"), Hello)>>),
      JObj(<<Item(S("content"), Hello)>>),
      JObj(<<Item(S("content"), JNum(5))>>),
      JObj(<<Item(S("messages"), Hello)>>),
      JObj(<<Item(S("messages"), JList(<<Msg("admin", Hello)>>))>>),
      JObj(<<>>) }

\* The lines another program may have put in a file: examples of each
\* format, a blank line, text that is no JSON, a truncated object, and JSON
\* values that are no object (number, null, strings, lists).
LineSamples ==
    { Dumps(ChatExample),
      Dumps(to_completion_format(ChatExample)),
      Dumps(to_text_format(JObj(<<Item(S("content"), Hello)>>))),
      Dumps(JObj(<<Item(S("messages"), JList(<<Msg("admin", Hello)>>))>>)),
      Dumps(JObj(<<>>)),
      <<>>,
      <<Bare>>,
      <<P("{")>>,
      <<JNum(5)>>,
      <<JNull>>,
      <<Hello>>,
      <<JStr(S("messages"))>>,
      <<JStr(<<"prompt", " ", "completion">>)>>,
      Dumps(JList(<<>>)),
      Dumps(JList(<<JStr(S("prompt")), JStr(S("completion"))>>)) }

SeqsUpTo(set, n) == UNION {[1..k -> set] : k \in 0..n}

\* Another program creates the file, empty.
ExternalCreate ==
    /\ ~jsonl.exists
    /\ jsonl' = [exists |-> TRUE, lines |-> <<>>]
    /\ report' = NoResult
    /\ UNCHANGED <<format_type, saved, notJsonl>>

\* Another program appends a line to the file.
ExternalAppend(line) ==
    /\ jsonl.exists
    /\ Len(jsonl.lines) < MaxLines
    /\ jsonl' = [jsonl EXCEPT !.lines = Append(@, line)]
    /\ report' = NoResult
    /\ UNCHANGED <<format_type, saved, notJsonl>>

\* Files of more lines than the report lists errors for: every line no
\* JSON; blank lines and chat examples in turn; one chat example, then
\* empty objects.
LongFiles ==
    UNION { { [i \in 1..n |-> <<Bare>>],
              [i \in 1..n |-> IF i % 2 = 1 THEN <<>> ELSE Dumps(ChatExample)],
              [i \in 1..n |-> IF i = 1 THEN Dumps(ChatExample)
                                       ELSE Dumps(JObj(<<>>))] } :
            n \in {MaxErrors + 1, MaxErrors + 2} }

\* Another program writes a whole file.
ExternalWrite(lines) ==
    /\ jsonl' = [exists |-> TRUE, lines |-> lines]
    /\ report' = NoResult
    /\ UNCHANGED <<format_type, saved, notJsonl>>

\* convert_and_save(examples, output_path): opens the file for writing, then
\* converts and writes the examples one by one; an unknown format type raises
\* ValueError at the first example, the file left empty.
ConvertAndSave(exs) ==
    LET known == format_type \in ConvFormats
        lines == IF known THEN WrittenLines(format_type, SystemMsg, exs) ELSE <<>>
    IN  /\ jsonl' = [exists |-> TRUE, lines |-> lines]
        /\ saved' = [kind |-> IF known \/ exs = <<>> THEN "ok" ELSE "ValueError",
                     examples |-> exs, wrote |-> lines]
        /\ report' = NoResult
        /\ UNCHANGED <<format_type, notJsonl>>

\* validate_jsonl_file(file_path) on the file as it is.
ValidateJsonlFile ==
    /\ report' = validate_jsonl_file(format_type, jsonl)
    /\ UNCHANGED <<format_type, jsonl, saved, notJsonl>>

JsonlInit ==
    /\ format_type \in ConvFormats \cup {"other"}
    /\ jsonl = NoFile
    /\ saved = NoResult
    /\ report = NoResult
    /\ split_ratios = DefaultRatios
    /\ examples = <<>>
    /\ rng = 0
    /\ last = NoCall
    /\ ref = NoCall
    /\ preprocessing_opts = DefaultOptions
    /\ raw = NoDirs
    /\ processed = NoResult
    /\ args = NoArgs
    /\ pc = "start"
    /\ trace = <<>>
    /\ exit_code = Running
    /\ outputs = NoOutputs
    /\ train_main = TrainAtRest
    /\ interactive_mode = InteractiveAtRest
    /\ checkpoint_callback = CheckpointAtRest
    /\ early_stopping = EarlyStoppingAtRest
    /\ metrics_logger = LoggerAtRest
    /\ metrics = MetricsAtRest
    /\ trainer = TrainerAtRest

\* The validator on files other programs wrote.
ValidateNext ==
    \/ ExternalCreate
    \/ \E line \in LineSamples : ExternalAppend(line)
    \/ \E lines \in LongFiles : ExternalWrite(lines)
    \/ ValidateJsonlFile

SpecValidate == JsonlInit /\ [][ValidateNext]_vars

\* The converter, and the validator on the files it wrote.
ConvertNext ==
    \/ \E exs \in SeqsUpTo(ExampleSamples, MaxExamples) : ConvertAndSave(exs)
    \/ ValidateJsonlFile

SpecConvert == JsonlInit /\ [][ConvertNext]_vars

\* A line that holds a schema-valid example: a JSON object that
\* validate_example accepts.
SchemaValid(fmt, line) ==
    /\ Loads(line).ok
    /\ Loads(line).val.t = "obj"
    /\ validate_example(fmt, Loads(line).val).res = "valid"

BadLines(fmt, lines) == {i \in DOMAIN lines : ~SchemaValid(fmt, lines[i])}

\* C3: validate_jsonl_file on an existing file never aborts: it returns a
\* report that counts every line, counts every line that is no schema-valid
\* example (no JSON, blank, or JSON that is no object of the expected shape)
\* as invalid, and names each such line in its errors (up to the first ten).
C3_MalformedLinesReported ==
    (report.kind # "none" /\ report.found) =>
        /\ report.kind = "report"
        /\ report.total = Len(jsonl.lines)
        /\ report.invalid_examples
              = Cardinality(BadLines(format_type, jsonl.lines))
        /\ \A i \in BadLines(format_type, jsonl.lines) :
              Cardinality({j \in BadLines(format_type, jsonl.lines) : j <= i})
                  <= MaxErrors
              => \E e \in DOMAIN report.errors : report.errors[e][1] = i

\* C3 holds of the files whose lines are JSON objects, blank or no JSON.
C3_ReportedWhenObjectsOrNoJson ==
    (report.kind # "none" /\ report.found
        /\ \A i \in DOMAIN jsonl.lines :
              Loads(jsonl.lines[i]).ok => Loads(jsonl.lines[i]).val.t = "obj") =>
        /\ report.kind = "report"
        /\ report.total = Len(jsonl.lines)
        /\ report.invalid_examples
              = Cardinality(BadLines(format_type, jsonl.lines))

\* The lines of the file that validate_example rejects or that are no JSON.
InvalidLines(fmt, lines) ==
    {i \in DOMAIN lines : LineVerdict(fmt, lines[i]).res = "invalid"}

\* The report is that of the file as it is.
C13_ReportCounts ==
    (report.kind = "report" /\ report.found) =>
        LET bad == InvalidLines(format_type, jsonl.lines)
        IN  /\ report.total = Len(jsonl.lines)
            /\ report.total = report.valid_examples + report.invalid_examples
            /\ report.invalid_examples = Cardinality(bad)
            /\ report.valid <=> report.invalid_examples = 0
            /\ Len(report.errors) = Min(MaxErrors, report.invalid_examples)
            /\ \A e \in DOMAIN report.errors :
                  /\ report.errors[e][1] \in bad
                  /\ report.errors[e][2]
                        = LineVerdict(format_type,
                                      jsonl.lines[report.errors[e][1]]).error
                  /\ Cardinality({i \in bad : i < report.errors[e][1]}) = e - 1

C4_RoundTrip ==
    (saved.kind = "ok" /\ format_type \in ConvFormats) =>
        \A i \in DOMAIN saved.wrote :
            LineVerdict(format_type, saved.wrote[i]).res = "valid"

\* An input example whose "messages", when it has any, is a list of
\* role/content messages with known roles, and whose "content", when it has
\* any, is a string.
WellFormedInput(example) ==
    /\ HasKey(example.v, S("messages"))
          => validate_chat_format(example).res = "valid"
    /\ HasKey(example.v, S("content"))
          => GetKey(example.v, S("content")).t = "str"

\* C4 holds of the well-formed input examples.
C4_RoundTripWellFormed ==
    (saved.kind = "ok" /\ format_type \in ConvFormats) =>
        \A i \in DOMAIN saved.wrote :
            WellFormedInput(saved.examples[i])
                => LineVerdict(format_type, saved.wrote[i]).res = "valid"

----------------------------------------------------------------------------
(* The preprocessor: HirnuPreprocessor *)

\* A raw line is a string: a sequence of atoms, each a tag ("Q:", "EN:",
\* ...), a blank, a quote, or a word.
IsSpace(atom) == atom \in {" ", "\t"}

\* The number of characters of an atom.
CharLen(atom) ==
    CASE atom \in {"Q:", "A:"}          -> 2
      [] atom \in {"EN:", "HI:", "---"} -> 3
      [] atom = "word"                  -> 4
      [] OTHER                          -> 1

\* len(text).
RECURSIVE StrLen(_)
StrLen(text) == IF text = <<>> THEN 0 ELSE CharLen(Head(text)) + StrLen(Tail(text))

RECURSIVE LStrip(_)
LStrip(text) ==
    IF text # <<>> /\ IsSpace(Head(text)) THEN LStrip(Tail(text)) ELSE text

RECURSIVE RStrip(_)
RStrip(text) ==
    IF text # <<>> /\ IsSpace(text[Len(text)])
    THEN RStrip(SubSeq(text, 1, Len(text) - 1)) ELSE text

\* text.strip().
Strip(text) == RStrip(LStrip(text))

\* re.sub(r"\s+", " ", text): every run of whitespace becomes one blank.
RECURSIVE CollapseSpace(_)
CollapseSpace(text) ==
    IF text = <<>> THEN <<>>
    ELSE IF IsSpace(Head(text))
         THEN <<" ">> \o CollapseSpace(LStrip(text))
         ELSE <<Head(text)>> \o CollapseSpace(Tail(text))

\* normalize_whitespace(text).
normalize_whitespace(opts, text) ==
    IF ~opts.normalize_whitespace THEN text ELSE Strip(CollapseSpace(text))

\* validate_length(text).
validate_length(opts, text) ==
    opts.min_text_length <= StrLen(text) /\ StrLen(text) <= opts.max_text_length

\* preprocess_text(text); no parser below calls it.
preprocess_text(opts, text) == normalize_whitespace(opts, text)

\* line.startswith(tag), on a stripped line.
StartsWith(line, tag) == line # <<>> /\ Head(line) = tag

\* line[len(tag):].strip() of a stripped line that starts with tag.
AfterTag(line) == Strip(Tail(line))

\* content.strip().split("\n"): blank lines at both ends of the file are
\* gone, and a file of blank lines only is one empty line.
RECURSIVE DropBlankHead(_)
DropBlankHead(lines) ==
    IF lines # <<>> /\ Strip(Head(lines)) = <<>>
    THEN DropBlankHead(Tail(lines)) ELSE lines

RECURSIVE DropBlankTail(_)
DropBlankTail(lines) ==
    IF lines # <<>> /\ Strip(lines[Len(lines)]) = <<>>
    THEN DropBlankTail(SubSeq(lines, 1, Len(lines) - 1)) ELSE lines

FileLines(lines) ==
    LET kept == DropBlankTail(DropBlankHead(lines))
    IN  IF kept = <<>> THEN <<<<>>>> ELSE kept

\* A parser that drops the test of the two sides: a pair with an empty side
\* yields an example too.
PairOkLoose(first, second) == TRUE

\* `if question and answer`, `if english and hirnu`: both sides non-empty.
PairOk(first, second) == first # <<>> /\ second # <<>>

ChatOf(user, assistant) ==
    JObj(<<Item(S("messages"),
                JList(<<Msg("system", SystemMsg), Msg("user", JStr(user)),
                        Msg("assistant", JStr(assistant))>>))>>)

\* An emitted example with its origin: the source, the 0-based index of the
\* opening tag line, and the two sides of the pair.
Emit(src, at, first, second, user, assistant) ==
    [src |-> src, at |-> at, first |-> first, second |-> second,
     example |-> ChatOf(user, assistant)]

\* The loop of preprocess_grammar_data (lines 88-110) from index i on.
RECURSIVE ParseGrammar(_, _, _, _)
ParseGrammar(opts, lines, i, acc) ==
    IF i >= Len(lines) THEN acc
    ELSE LET line == Strip(lines[i + 1])
         IN  IF StartsWith(line, "Q:")
             THEN LET question == AfterTag(line)
                      next == IF i + 1 < Len(lines) THEN Strip(lines[i + 2]) ELSE <<>>
                  IN  IF StartsWith(next, "A:")
                         /\ PairOk(question, AfterTag(next))
                         /\ validate_length(opts, question \o AfterTag(next))
                      THEN ParseGrammar(opts, lines, i + 2,
                               Append(acc, Emit("grammar", i, question, AfterTag(next),
                                                question, AfterTag(next))))
                      ELSE ParseGrammar(opts, lines, i + 2, acc)
             ELSE ParseGrammar(opts, lines, i + 1, acc)

ToHirnu == <<"Translate to Hirnu:", " ">>

ToEnglish == <<"Translate to English:", " ">>

WhatMeans == <<"What does this mean in English:", " ">>

\* The loop of preprocess_vocabulary_data (lines 134-171) from index i on.
RECURSIVE ParseVocabulary(_, _, _, _)
ParseVocabulary(opts, lines, i, acc) ==
    IF i >= Len(lines) THEN acc
    ELSE LET line == Strip(lines[i + 1])
         IN  IF line = <<>> \/ StartsWith(line, "#")
             THEN ParseVocabulary(opts, lines, i + 1, acc)
             ELSE IF StartsWith(line, "EN:")
             THEN LET english == AfterTag(line)
                      next == IF i + 1 < Len(lines) THEN Strip(lines[i + 2]) ELSE <<>>
                      hirnu == AfterTag(next)
                  IN  IF StartsWith(next, "HI:") /\ PairOk(english, hirnu)
                      THEN ParseVocabulary(opts, lines, i + 2,
                               acc \o <<Emit("vocabulary", i, english, hirnu,
                                             ToHirnu \o english, hirnu),
                                        Emit("vocabulary", i, english, hirnu,
                                             ToEnglish \o hirnu, english)>>)
                      ELSE ParseVocabulary(opts, lines, i + 2, acc)
             ELSE ParseVocabulary(opts, lines, i + 1, acc)

\* The loop of preprocess_text_data (lines 195-242) from index i on.
RECURSIVE ParseText(_, _, _, _)
ParseText(opts, lines, i, acc) ==
    IF i >= Len(lines) THEN acc
    ELSE LET line == Strip(lines[i + 1])
         IN  IF line = <<>> \/ StartsWith(line, "#") \/ StartsWith(line, "---")
             THEN ParseText(opts, lines, i + 1, acc)
             ELSE IF StartsWith(line, "HI:")
             THEN LET hirnu_text == AfterTag(line)
                      next == IF i + 1 < Len(lines) THEN Strip(lines[i + 2]) ELSE <<>>
                      english_text == AfterTag(next)
                      both == <<Emit("texts", i, hirnu_text, english_text,
                                     ToHirnu \o english_text, hirnu_text),
                                Emit("texts", i, hirnu_text, english_text,
                                     ToEnglish \o hirnu_text, english_text)>>
                      unquoted == \/ ~(\E k \in DOMAIN hirnu_text : hirnu_text[k] = "\"")
                                  \/ ~(\E k \in DOMAIN english_text : english_text[k] = "\"")
                  IN  IF StartsWith(next, "EN:") /\ PairOk(hirnu_text, english_text)
                      THEN ParseText(opts, lines, i + 2,
                               acc \o both \o
                               (IF unquoted THEN <<>>
                                ELSE <<Emit("texts", i, hirnu_text, english_text,
                                            WhatMeans \o hirnu_text, english_text)>>))
                      ELSE ParseText(opts, lines, i + 2, acc)
             ELSE ParseText(opts, lines, i + 1, acc)

ParseFile(opts, src, lines) ==
    CASE src = "grammar"    -> ParseGrammar(opts, FileLines(lines), 0, <<>>)
      [] src = "vocabulary" -> ParseVocabulary(opts, FileLines(lines), 0, <<>>)
      [] OTHER              -> ParseText(opts, FileLines(lines), 0, <<>>)

\* The *.txt files of a source directory in the order of the glob: the file
\* that cannot be read (not UTF-8), when there is one, then the file with
\* the lines.
DirFiles(dir) ==
    (IF dir.broken THEN <<[readable |-> FALSE, lines |-> <<>>]>> ELSE <<>>)
        \o <<[readable |-> TRUE, lines |-> dir.lines]>>

\* A loop that ends at the file that raised.
RestAfterErrorNone(files) == <<>>

\* except Exception (lines 112-113, 173-174, 244-245): the for loop goes on
\* with the next file.
RestAfterError(files) == Tail(files)

\* The for loop of preprocess_<source>_data over the files: each file is
\* read and parsed in a try; read_text raises on a file that cannot be read,
\* and the handler prints a warning.
RECURSIVE PreprocessFiles(_, _, _, _)
PreprocessFiles(opts, src, files, acc) ==
    IF files = <<>> THEN acc
    ELSE IF ~Head(files).readable
    THEN PreprocessFiles(opts, src, RestAfterError(files),
             [acc EXCEPT !.warnings = Append(@, [src |-> src, what |-> "file"])])
    ELSE PreprocessFiles(opts, src, Tail(files),
             [acc EXCEPT !.examples = @ \o ParseFile(opts, src, Head(files).lines)])

\* preprocess_<source>_data(dir).
PreprocessDir(opts, src, dir) ==
    PreprocessFiles(opts, src, DirFiles(dir),
                    [examples |-> <<>>, warnings |-> <<>>])

\* The part of process_all for one source: skipped when the directory does
\* not exist.
SourcePart(opts, src, dir) ==
    IF dir.exists THEN PreprocessDir(opts, src, dir)
    ELSE [examples |-> <<>>, warnings |-> <<>>]

\* process_all(): grammar, then vocabulary, then texts.
process_all(opts, dirs) ==
    LET g == SourcePart(opts, "grammar", dirs["grammar"])
        v == SourcePart(opts, "vocabulary", dirs["vocabulary"])
        t == SourcePart(opts, "texts", dirs["texts"])
    IN  [kind |-> "done",
         examples |-> g.examples \o v.examples \o t.examples,
         warnings |-> g.warnings \o v.warnings \o t.warnings]

\* Bound: the lines in the raw directories, all together.
MaxRawLines == 4

\* The lines a raw file may hold, per source.  Grammar: a question of ten
\* characters with a double blank, an answer of one character with blanks
\* around the line, a question of one character, an empty question.
\* Vocabulary: an English word, a Hirnu phrase with a tab and a blank in it, an
\* empty English side.  Texts: a quoted Hirnu text, a quoted English text, a
\* separator.
RawLines(src) ==
    CASE src = "grammar" ->
            { <<"Q:", " ", "word", " ", " ", "word">>,
              <<" ", "A:", " ", "x", " ">>,
              <<"Q:", "x">>,
              <<"Q:", " ">> }
      [] src = "vocabulary" ->
            { <<"EN:", " ", "x">>,
              <<"HI:", " ", "x", "\t", " ", "x">>,
              <<"EN:">> }
      [] OTHER ->
            { <<"HI:", "\"", "x", "\"">>,
              <<"EN:", "\"", "x", "\"">>,
              <<"---">> }

\* The preprocessing options of the configuration: the defaults, a narrow
\* length range, and whitespace normalization switched off.
PreConfigs ==
    { [normalize_whitespace |-> TRUE, min_text_length |-> DefaultMinLength,
       max_text_length |-> DefaultMaxLength],
      [normalize_whitespace |-> TRUE, min_text_length |-> 2,
       max_text_length |-> DefaultMinLength],
      [normalize_whitespace |-> FALSE, min_text_length |-> DefaultMinLength,
       max_text_length |-> DefaultMaxLength] }

RawTotal == Len(raw["grammar"].lines) + Len(raw["vocabulary"].lines)
               + Len(raw["texts"].lines)

\* The user adds a line to the file of a source directory (creating them).
WriteRawLine(src, line) ==
    /\ RawTotal < MaxRawLines
    /\ raw' = [raw EXCEPT ![src] = [@ EXCEPT !.exists = TRUE,
                                             !.lines = Append(@, line)]]
    /\ processed' = NoResult
    /\ UNCHANGED <<preprocessing_opts, notPre>>

\* The user puts a file that cannot be read (not UTF-8) in a source
\* directory; one such file in all.
BreakFile(src) ==
    /\ \A other \in Sources : ~raw[other].broken
    /\ raw' = [raw EXCEPT ![src] = [@ EXCEPT !.exists = TRUE, !.broken = TRUE]]
    /\ processed' = NoResult
    /\ UNCHANGED <<preprocessing_opts, notPre>>

\* preprocessor.process_all() on the directories as they are.
ProcessAll ==
    /\ processed' = process_all(preprocessing_opts, raw)
    /\ UNCHANGED <<preprocessing_opts, raw, notPre>>

PreInit ==
    /\ preprocessing_opts \in PreConfigs
    /\ raw = NoDirs
    /\ processed = NoResult
    /\ split_ratios = DefaultRatios
    /\ examples = <<>>
    /\ rng = 0
    /\ last = NoCall
    /\ ref = NoCall
    /\ format_type = "chat"
    /\ jsonl = NoFile
    /\ saved = NoResult
    /\ report = NoResult
    /\ args = NoArgs
    /\ pc = "start"
    /\ trace = <<>>
    /\ exit_code = Running
    /\ outputs = NoOutputs
    /\ train_main = TrainAtRest
    /\ interactive_mode = InteractiveAtRest
    /\ checkpoint_callback = CheckpointAtRest
    /\ early_stopping = EarlyStoppingAtRest
    /\ metrics_logger = LoggerAtRest
    /\ metrics = MetricsAtRest
    /\ trainer = TrainerAtRest

PreNext ==
    \/ \E src \in Sources : \E line \in RawLines(src) : WriteRawLine(src, line)
    \/ \E src \in Sources : BreakFile(src)
    \/ ProcessAll

SpecPre == PreInit /\ [][PreNext]_vars

\* The tag that opens a pair in a source, and the tag of its partner line.
Opener(src) ==
    CASE src = "grammar" -> "Q:" [] src = "vocabulary" -> "EN:" [] OTHER -> "HI:"

Partner(src) ==
    CASE src = "grammar" -> "A:" [] src = "vocabulary" -> "HI:" [] OTHER -> "EN:"

\* The lines of the file of a source as the parser numbers them (from 0).
LinesOf(src) == FileLines(raw[src].lines)

LineAt(src, i) == Strip(LinesOf(src)[i + 1])

IsTagLine(src, i, tag) ==
    i >= 0 /\ i < Len(LinesOf(src)) /\ StartsWith(LineAt(src, i), tag)

\* Line i opens a malformed pair: an opening tag line that is not directly
\* followed by its partner tag line, or a pair with an empty side.
MalformedAt(src, i) ==
    /\ IsTagLine(src, i, Opener(src))
    /\ \/ ~IsTagLine(src, i + 1, Partner(src))
       \/ AfterTag(LineAt(src, i)) = <<>>
       \/ AfterTag(LineAt(src, i + 1)) = <<>>

\* Line i opens a well-formed pair.
WellFormedAt(src, i) ==
    /\ IsTagLine(src, i, Opener(src))
    /\ IsTagLine(src, i + 1, Partner(src))
    /\ AfterTag(LineAt(src, i)) # <<>>
    /\ AfterTag(LineAt(src, i + 1)) # <<>>

PairText(src, i) == AfterTag(LineAt(src, i)) \o AfterTag(LineAt(src, i + 1))

InRange(text) ==
    /\ preprocessing_opts.min_text_length <= StrLen(text)
    /\ StrLen(text) <= preprocessing_opts.max_text_length

EmittedAt(src, i) ==
    \E k \in DOMAIN processed.examples :
        processed.examples[k].src = src /\ processed.examples[k].at = i

Positions(src) == 0..(Len(LinesOf(src)) - 1)

\* Parsing goes on after the malformed pair at i: every well-formed pair
\* further down whose opening line does not directly follow another opening
\* line is emitted (in grammar, when its text is in the length range).
ContinuesAfter(src, i) ==
    \A j \in Positions(src) :
        (/\ j > i
         /\ WellFormedAt(src, j)
         /\ ~IsTagLine(src, j - 1, Opener(src))
         /\ src = "grammar" => InRange(PairText(src, j)))
        => EmittedAt(src, j)

\* C5 as stated: a malformed pair produces no example, a warning is logged
\* for it, and parsing of the rest of the file continues.
C5_MalformedSkippedWithWarning ==
    processed.kind = "done" =>
        \A src \in Sources : \A i \in Positions(src) :
            MalformedAt(src, i) =>
                /\ ~EmittedAt(src, i)
                /\ \E w \in DOMAIN processed.warnings :
                      processed.warnings[w].src = src
                          /\ processed.warnings[w].what = "pair"
                /\ ContinuesAfter(src, i)

\* C5 amended: a malformed pair produces no example, no warning is logged for
\* it (the only warnings are those of files that cannot be read), and parsing
\* of the rest of the file continues.
C5_MalformedSkippedSilently ==
    processed.kind = "done" =>
        /\ \A w \in DOMAIN processed.warnings :
              processed.warnings[w].what = "file"
                  /\ raw[processed.warnings[w].src].broken
        /\ \A src \in Sources : \A i \in Positions(src) :
              MalformedAt(src, i) =>
                  ~EmittedAt(src, i) /\ ContinuesAfter(src, i)

\* C5 witness: a file with a pair the parser read whose first side is empty
\* and, further down, a well-formed pair that was emitted.
C5_Witness ==
    /\ processed.kind = "done"
    /\ \E src \in Sources : \E i, j \in Positions(src) :
          /\ MalformedAt(src, i)
          /\ ~IsTagLine(src, i - 1, Opener(src))
          /\ IsTagLine(src, i + 1, Partner(src))
          /\ AfterTag(LineAt(src, i)) = <<>>
          /\ j > i
          /\ WellFormedAt(src, j)
          /\ EmittedAt(src, j)

\* What process_all returns for the files that can be read.
ReadableExamples(src) ==
    IF raw[src].exists
    THEN ParseFile(preprocessing_opts, src, raw[src].lines) ELSE <<>>

\* C14: a raw file that raises while it is read is caught with a warning,
\* and process_all still returns the examples of every other file, of the
\* same source and of the other sources.
C14_PerFileIsolation ==
    processed.kind = "done" =>
        /\ processed.examples
              = ReadableExamples("grammar") \o ReadableExamples("vocabulary")
                    \o ReadableExamples("texts")
        /\ \A src \in Sources :
              raw[src].broken <=>
                  \E w \in DOMAIN processed.warnings :
                      processed.warnings[w] = [src |-> src, what |-> "file"]

\* C14 witness: a source with a file that cannot be read and a file whose
\* examples were returned, and another source whose examples were returned.
C14_Witness ==
    /\ processed.kind = "done"
    /\ \E src, other \in Sources :
          /\ src # other
          /\ raw[src].broken
          /\ \E k \in DOMAIN processed.examples : processed.examples[k].src = src
          /\ \E k \in DOMAIN processed.examples : processed.examples[k].src = other

\* C6: every example process_all emits, whatever its source, comes from a
\* pair whose text has a length in min_text_length..max_text_length.
C6_LengthFiltered ==
    processed.kind = "done" =>
        \A k \in DOMAIN processed.examples :
            InRange(processed.examples[k].first \o processed.examples[k].second)

\* C6 holds of the examples of the grammar source.
C6_GrammarLengthFiltered ==
    processed.kind = "done" =>
        \A k \in DOMAIN processed.examples :
            processed.examples[k].src = "grammar" =>
                InRange(processed.examples[k].first \o processed.examples[k].second)

\* The content of message n (1 system, 2 user, 3 assistant) of an example.
Content(example, n) ==
    GetKey(GetKey(example.v, S("messages")).v[n].v, S("content")).v

\* No leading or trailing whitespace, and every run of whitespace is a
\* single blank.
Normalized(text) ==
    /\ text # <<>> => ~IsSpace(Head(text)) /\ ~IsSpace(text[Len(text)])
    /\ \A k \in DOMAIN text : IsSpace(text[k]) => text[k] = " "
    /\ \A k \in 1..(Len(text) - 1) : ~(IsSpace(text[k]) /\ IsSpace(text[k + 1]))

\* C7: with normalize_whitespace enabled, the user and assistant content of
\* every emitted example is whitespace-normalized.
C7_WhitespaceNormalized ==
    (processed.kind = "done" /\ preprocessing_opts.normalize_whitespace) =>
        \A k \in DOMAIN processed.examples :
            /\ Normalized(Content(processed.examples[k].example, 2))
            /\ Normalized(Content(processed.examples[k].example, 3))

\* What holds instead: the contents have no leading or trailing whitespace.
C7_ContentsStripped ==
    processed.kind = "done" =>
        \A k \in DOMAIN processed.examples : \A n \in {2, 3} :
            LET text == Content(processed.examples[k].example, n)
            IN  ~IsSpace(Head(text)) /\ ~IsSpace(text[Len(text)])


----------------------------------------------------------------------------
(* scripts/prepare_data.py: main(), step by step.  trace lists the calls   *)
(* main() has made to the stages; examples is its local list, last the     *)
(* outcome of its create_splits call, outputs the three split files.       *)

SplitNames == {"train", "test", "valid"}

MinDatasetSize == 10

\* builder.validate_splits(train, test, valid).
validate_splits(train, test, valid) ==
    /\ train # <<>>
    /\ test # <<>>
    /\ valid # <<>>
    /\ Len(train) + Len(test) + Len(valid) >= MinDatasetSize

\* The combined report of validate_dataset_splits from the three reports; an
\* exception in place of a report escapes.
CombinedReport(reports) ==
    IF \E f \in SplitNames : reports[f].kind = "TypeError"
    THEN [kind |-> "TypeError"]
    ELSE [kind |-> "report",
          all_valid |-> \A f \in SplitNames : reports[f].valid,
          train |-> reports["train"], test |-> reports["test"],
          valid |-> reports["valid"]]

\* validator.validate_dataset_splits(train_path, test_path, valid_path).
validate_dataset_splits(fmt, files) ==
    CHOOSE combined \in
        { CombinedReport(reports) :
            reports \in {[f \in SplitNames |->
                             validate_jsonl_file(fmt, files[f])]} } : TRUE

ExitReturn(code) == [kind |-> "returned", code |-> code, what |-> "none"]

ExitRaise(what) == [kind |-> "raised", code |-> -1, what |-> what]

\* How main() ends on the outcome of validate_dataset_splits.
ExitOnReport(r) ==
    IF r.kind = "TypeError" THEN ExitRaise("TypeError")
    ELSE ExitReturn(IF r.all_valid THEN 0 ELSE 1)

\* --validate-only: the existing files are validated and main() returns.
ValidateOnly ==
    /\ pc = "start"
    /\ args.validate_only
    /\ trace' = Append(trace, "validate_dataset_splits")
    /\ report' = validate_dataset_splits(format_type, outputs)
    /\ exit_code' = ExitOnReport(validate_dataset_splits(format_type, outputs))
    /\ pc' = "end"
    /\ UNCHANGED <<args, outputs, splitVars, format_type, jsonl, saved,
                   preVars, laterVars>>

\* Step 1: preprocessor.process_all(); no examples, return 1.
Step1Preprocess ==
    /\ pc = "start"
    /\ ~args.validate_only
    /\ LET r == process_all(preprocessing_opts, raw)
           found == [i \in DOMAIN r.examples |-> r.examples[i].example]
       IN  /\ processed' = r
           /\ examples' = found
           /\ exit_code' = IF found = <<>> THEN ExitReturn(1) ELSE exit_code
           /\ pc' = IF found = <<>> THEN "end" ELSE "step2"
    /\ trace' = Append(trace, "process_all")
    /\ UNCHANGED <<args, outputs, split_ratios, rng, last, ref, jsonlVars,
                   preprocessing_opts, raw, laterVars>>

\* Step 2: the converter is constructed; no example is converted here.
Step2Converter ==
    /\ pc = "step2"
    /\ trace' = Append(trace, "MLXFormatConverter")
    /\ pc' = "step3"
    /\ UNCHANGED <<args, exit_code, outputs, splitVars, jsonlVars, preVars, laterVars>>

\* Step 3: builder.create_splits(examples), whose ValueError escapes main(),
\* then builder.validate_splits; splits that are not reasonable, return 1.
Step3CreateSplits ==
    /\ pc = "step3"
    /\ LET call == create_splits(split_ratios, examples, rng)
           ok == call.out.kind = "ok"
           reasonable == ok /\ validate_splits(call.out.parts.train,
                                               call.out.parts.test,
                                               call.out.parts.valid)
       IN  /\ examples' = call.list
           /\ rng' = call.rng
           /\ last' = call.out
           /\ trace' = IF ok THEN trace \o <<"create_splits", "validate_splits">>
                       ELSE Append(trace, "create_splits")
           /\ exit_code' = CASE ~ok -> ExitRaise("ValueError")
                             [] ok /\ ~reasonable -> ExitReturn(1)
                             [] OTHER -> exit_code
           /\ pc' = IF reasonable THEN "step4" ELSE "end"
    /\ UNCHANGED <<args, outputs, split_ratios, ref, jsonlVars, preVars, laterVars>>

\* Step 4: converter.convert_and_save for train, test and valid: each example
\* is converted as it is written.  With an unknown format type the first
\* call opens train.jsonl for writing and raises ValueError at its first
\* example (train is not empty here), which escapes main().
Step4Save ==
    /\ pc = "step4"
    /\ LET known == format_type \in ConvFormats
           file(f) == [exists |-> TRUE,
                       lines |-> WrittenLines(format_type, SystemMsg,
                                              last.parts[f])]
       IN  /\ outputs' = IF known
                         THEN [f \in SplitNames |-> file(f)]
                         ELSE [outputs EXCEPT
                                  !["train"] = [exists |-> TRUE, lines |-> <<>>]]
           /\ trace' = IF known
                       THEN trace \o <<"convert_and_save", "convert_and_save",
                                       "convert_and_save">>
                       ELSE Append(trace, "convert_and_save")
           /\ exit_code' = IF known THEN exit_code ELSE ExitRaise("ValueError")
           /\ pc' = IF known THEN "step5" ELSE "end"
    /\ UNCHANGED <<args, splitVars, jsonlVars, preVars, laterVars>>

\* Step 5 with --skip-validation: main() returns 0.
Step5Skip ==
    /\ pc = "step5"
    /\ args.skip_validation
    /\ exit_code' = ExitReturn(0)
    /\ pc' = "end"
    /\ UNCHANGED <<args, trace, outputs, splitVars, jsonlVars, preVars, laterVars>>

\* Step 5: the files just written are validated.
Step5Validate ==
    /\ pc = "step5"
    /\ ~args.skip_validation
    /\ trace' = Append(trace, "validate_dataset_splits")
    /\ report' = validate_dataset_splits(format_type, outputs)
    /\ exit_code' = ExitOnReport(validate_dataset_splits(format_type, outputs))
    /\ pc' = "end"
    /\ UNCHANGED <<args, outputs, splitVars, format_type, jsonl, saved,
                   preVars, laterVars>>

Dir(lines) == [exists |-> TRUE, broken |-> FALSE, lines |-> lines]

EnLine == <<"EN:", " ", "x">>

HiLine == <<"HI:", " ", "x", "\t", " ", "x">>

\* The raw directories main() may find: none; a vocabulary of one pair (two
\* examples); a vocabulary of five pairs (ten examples); the same with a
\* grammar file of one pair.
RawSetups ==
    { [src \in Sources |-> NoDir],
      [src \in Sources |->
          IF src = "vocabulary" THEN Dir(<<EnLine, HiLine>>) ELSE NoDir],
      [src \in Sources |->
          IF src = "vocabulary"
          THEN Dir(<<EnLine, HiLine, EnLine, HiLine, EnLine, HiLine,
                     EnLine, HiLine, EnLine, HiLine>>)
          ELSE NoDir],
      [src \in Sources |->
          CASE src = "vocabulary" ->
                  Dir(<<EnLine, HiLine, EnLine, HiLine, EnLine, HiLine,
                        EnLine, HiLine, EnLine, HiLine>>)
            [] src = "grammar" ->
                  Dir(<<<<"Q:", " ", "word", " ", " ", "word">>,
                        <<" ", "A:", " ", "x", " ">>>>)
            [] OTHER -> NoDir] }

\* The split files main() may find from an earlier run or another program:
\* none; three files of one chat example each; the same with a line null in
\* train.jsonl; the same without valid.jsonl; the same with an empty object
\* in test.jsonl; a line null in train.jsonl and no valid.jsonl.
OutputSetups ==
    LET good == [exists |-> TRUE, lines |-> <<Dumps(ChatExample)>>]
    IN  { [f \in SplitNames |-> NoFile],
          [f \in SplitNames |-> good],
          [f \in SplitNames |->
              IF f = "train" THEN [good EXCEPT !.lines = Append(@, <<JNull>>)]
              ELSE good],
          [f \in SplitNames |-> IF f = "valid" THEN NoFile ELSE good],
          [f \in SplitNames |->
              IF f = "test"
              THEN [good EXCEPT !.lines = Append(@, Dumps(JObj(<<>>)))]
              ELSE good],
          [f \in SplitNames |->
              CASE f = "train" -> [good EXCEPT !.lines = Append(@, <<JNull>>)]
                [] f = "valid" -> NoFile
                [] OTHER -> good] }

\* The split section of the configuration: the default, and ratios that do
\* not sum to one.
SplitSetups ==
    { DefaultRatios,
      [train |-> 8 * (RatioUnit \div 10), test |-> RatioUnit \div 10,
       valid |-> 5 * (RatioUnit \div 10), random_seed |-> DefaultSeed] }

PrepInit ==
    /\ args \in [validate_only : BOOLEAN, skip_validation : BOOLEAN]
    /\ pc = "start"
    /\ trace = <<>>
    /\ exit_code = Running
    /\ outputs \in OutputSetups
    /\ train_main = TrainAtRest
    /\ interactive_mode = InteractiveAtRest
    /\ checkpoint_callback = CheckpointAtRest
    /\ early_stopping = EarlyStoppingAtRest
    /\ metrics_logger = LoggerAtRest
    /\ metrics = MetricsAtRest
    /\ trainer = TrainerAtRest
    /\ split_ratios \in SplitSetups
    /\ examples = <<>>
    /\ rng = 0
    /\ last = NoCall
    /\ ref = NoCall
    /\ format_type \in ConvFormats \cup {"other"}
    /\ jsonl = NoFile
    /\ saved = NoResult
    /\ report = NoResult
    /\ preprocessing_opts = DefaultOptions
    /\ raw \in RawSetups
    /\ processed = NoResult

PrepNext ==
    \/ ValidateOnly
    \/ Step1Preprocess
    \/ Step2Converter
    \/ Step3CreateSplits
    \/ Step4Save
    \/ Step5Skip
    \/ Step5Validate

SpecPrepare == PrepInit /\ [][PrepNext]_vars

\* Every call of stage b in the trace has a call of stage a before it.
Before(a, b) ==
    \A j \in DOMAIN trace :
        trace[j] = b => \E i \in 1..(j - 1) : trace[i] = a

\* C8 as stated: in a run of the pipeline the stages work in the order
\* preprocessor, converter, splitter, validator: the examples are converted
\* before the split is computed, and the split files are validated only
\* once they exist.
C8_StagesInOrder ==
    ~args.validate_only =>
        /\ Before("process_all", "convert_and_save")
        /\ Before("convert_and_save", "create_splits")
        /\ Before("create_splits", "validate_dataset_splits")
        /\ (trace # <<>> /\ trace[Len(trace)] = "validate_dataset_splits")
               => \A f \in SplitNames : outputs[f].exists

\* C8, what the code does: the converter is constructed before the split, but
\* examples are converted only when the partitions are saved, after the split
\* is computed; validation comes last, on files that exist.
C8_ConvertedOnSave ==
    ~args.validate_only =>
        /\ Before("process_all", "MLXFormatConverter")
        /\ Before("MLXFormatConverter", "create_splits")
        /\ Before("validate_splits", "convert_and_save")
        /\ Before("create_splits", "validate_splits")
        /\ Before("convert_and_save", "validate_dataset_splits")
        /\ (trace # <<>> /\ trace[Len(trace)] = "validate_dataset_splits")
               => \A f \in SplitNames : outputs[f].exists

\* A complete run of the pipeline that returned 0 after validation.
C8_Witness ==
    /\ ~args.validate_only
    /\ exit_code = ExitReturn(0)
    /\ trace # <<>>
    /\ trace[Len(trace)] = "validate_dataset_splits"


\* C11 as stated, for prepare_data: whatever a step of main() raises is
\* caught inside main(); no exception leaves it.
C11_NoExceptionEscapes == exit_code.kind # "raised"

\* C11, what holds of prepare_data: main() ends by a return of 0 or 1 or by
\* an exception that escapes; the failures it turns into a return of 1 are
\* those it tests for (no examples, unreasonable splits, an invalid report).
C11_ReturnsOrRaises ==
    pc = "end" =>
        \/ exit_code.kind = "returned" /\ exit_code.code \in {0, 1}
        \/ exit_code.kind = "raised"
               /\ exit_code.what \in {"ValueError", "TypeError"}


\* The three split files exist and every line of each is a schema-valid
\* example of the configured format.
AllSchemaValid ==
    \A f \in SplitNames :
        /\ outputs[f].exists
        /\ \A i \in DOMAIN outputs[f].lines :
              SchemaValid(format_type, outputs[f].lines[i])

\* C15 as stated: with --validate-only main() makes the one call
\* validate_dataset_splits (no preprocessing, split or conversion) and
\* returns 0 exactly when the three files exist and all their lines are
\* schema-valid, 1 otherwise.
C15_ValidateOnly ==
    (args.validate_only /\ pc = "end") =>
        /\ trace = <<"validate_dataset_splits">>
        /\ exit_code = ExitReturn(IF AllSchemaValid THEN 0 ELSE 1)

\* C15 holds when every JSON line of the three files is an object.
C15_ValidateOnlyObjects ==
    (/\ args.validate_only
     /\ pc = "end"
     /\ \A f \in SplitNames : \A i \in DOMAIN outputs[f].lines :
           Loads(outputs[f].lines[i]).ok
               => Loads(outputs[f].lines[i]).val.t = "obj") =>
        /\ trace = <<"validate_dataset_splits">>
        /\ exit_code = ExitReturn(IF AllSchemaValid THEN 0 ELSE 1)

\* validate_dataset_splits was the last call of main(), on split files of
\* which one or more did not exist.
ValidatedWithMissing ==
    /\ pc = "end"
    /\ trace # <<>>
    /\ trace[Len(trace)] = "validate_dataset_splits"
    /\ \E f \in SplitNames : ~outputs[f].exists

\* The report of validate_jsonl_file on a path that does not exist.
NotFoundReport(r) ==
    /\ r.kind = "report"
    /\ ~r.valid
    /\ r.error = "File not found"
    /\ r.total = 0
    /\ r.valid_examples = 0
    /\ r.invalid_examples = 0

\* C19 as stated: validate_jsonl_file on a path that does not exist raises
\* nothing and returns valid = false, the error naming the file and all
\* counts 0; so validate_dataset_splits reports all_valid = false when any
\* of the three files is missing.
C19_MissingFileReported ==
    ValidatedWithMissing =>
        /\ report.kind = "report"
        /\ ~report.all_valid
        /\ \A f \in SplitNames : ~outputs[f].exists => NotFoundReport(report[f])

\* C19, what holds: when validate_dataset_splits returns a report at all, a
\* missing file has the not-found report in it and all_valid is false.
C19_MissingFileInReport ==
    (ValidatedWithMissing /\ report.kind = "report") =>
        /\ ~report.all_valid
        /\ \A f \in SplitNames : ~outputs[f].exists => NotFoundReport(report[f])

----------------------------------------------------------------------------
(* scripts/train.py: main(), step by step.  train_main.env is what the run *)
(* finds: whether the two data files exist and whether the configuration   *)
(* file loads; trace lists what main() called and printed.  A user         *)
(* interrupt (KeyboardInterrupt) can arrive at any step.                   *)

TrainConfigs == {"ok", "missing", "invalid"}

\* main() moves to step next, having called or printed events, with exit
\* exit.
TrainStep(next, events, exit) ==
    /\ train_main' = [train_main EXCEPT !.pc = next,
                                         !.trace = @ \o events,
                                         !.exit = exit]
    /\ UNCHANGED <<splitVars, jsonlVars, preVars, prepVars, interactive_mode,
                   checkpoint_callback, early_stopping, metrics_logger,
                   evalVars>>

\* Lines 49-63: the two data files must exist, or main() returns 1.
TrainCheckData ==
    /\ train_main.pc = "start"
    /\ IF ~train_main.env.train_data
       THEN TrainStep("end", <<"Training data not found">>, ExitReturn(1))
       ELSE IF ~train_main.env.valid_data
       THEN TrainStep("end", <<"Validation data not found">>, ExitReturn(1))
       ELSE TrainStep("load", <<>>, train_main.exit)

\* Line 71: HirnuTrainingConfig.from_yaml, outside any try: a missing file
\* raises FileNotFoundError, an unknown key TypeError.
TrainLoadConfig ==
    /\ train_main.pc = "load"
    /\ CASE train_main.env.config = "ok" ->
                TrainStep("summary", <<"from_yaml">>, train_main.exit)
         [] train_main.env.config = "missing" ->
                TrainStep("end", <<"from_yaml">>, ExitRaise("FileNotFoundError"))
         [] OTHER ->
                TrainStep("end", <<"from_yaml">>, ExitRaise("TypeError"))

\* A main() that does not look at --dry-run.
TrainPrintSummaryNoDryRun ==
    /\ train_main.pc = "summary"
    /\ TrainStep("init", <<"Training Configuration">>, train_main.exit)

\* Lines 73-90: the configuration summary; with --dry-run main() returns 0.
TrainPrintSummary ==
    /\ train_main.pc = "summary"
    /\ IF train_main.args.dry_run
       THEN TrainStep("end", <<"Training Configuration", "Dry run complete">>,
                      ExitReturn(0))
       ELSE TrainStep("init", <<"Training Configuration">>, train_main.exit)

\* Lines 92-106: HirnuTrainer(...), outside any try; setup_logging in its
\* constructor may raise (a log directory that cannot be made).
TrainInitTrainer(ok) ==
    /\ train_main.pc = "init"
    /\ IF ok
       THEN TrainStep("try", <<"HirnuTrainer">>, train_main.exit)
       ELSE TrainStep("end", <<"HirnuTrainer">>, ExitRaise("OSError"))

\* Lines 108-109: the try is entered and trainer.train() called.
TrainCall ==
    /\ train_main.pc = "try"
    /\ TrainStep("training", <<"train">>, train_main.exit)

\* trainer.train() returns.
TrainReturns ==
    /\ train_main.pc = "training"
    /\ TrainStep("trained", <<>>, train_main.exit)

\* trainer.train() raises: lines 123-128.
TrainRaises ==
    /\ train_main.pc = "training"
    /\ TrainStep("end", <<"Training failed with error", "traceback">>,
                 ExitReturn(1))

\* Lines 111-114.
TrainPrintComplete ==
    /\ train_main.pc = "trained"
    /\ TrainStep("return", <<"Training complete">>, train_main.exit)

\* Line 116.
TrainReturn ==
    /\ train_main.pc = "return"
    /\ TrainStep("end", <<>>, ExitReturn(0))

\* A main() whose try guards nothing.
TrainInTryNothing == {}

\* The steps that lie inside the try of lines 108-116.
TrainInTry == {"training", "trained", "return"}

\* The user interrupts the run: inside the try lines 118-121 catch it,
\* elsewhere KeyboardInterrupt leaves main().
TrainInterrupt ==
    /\ train_main.pc # "end"
    /\ IF train_main.pc \in TrainInTry
       THEN TrainStep("end", <<"KeyboardInterrupt", "Training interrupted by user",
                               "Checkpoints are saved in">>, ExitReturn(1))
       ELSE TrainStep("end", <<"KeyboardInterrupt">>,
                      ExitRaise("KeyboardInterrupt"))

TrainNext ==
    \/ TrainCheckData
    \/ TrainLoadConfig
    \/ TrainPrintSummary
    \/ \E ok \in BOOLEAN : TrainInitTrainer(ok)
    \/ TrainCall
    \/ TrainReturns
    \/ TrainRaises
    \/ TrainPrintComplete
    \/ TrainReturn
    \/ TrainInterrupt


----------------------------------------------------------------------------
(* scripts/inference.py: the loop of interactive_mode (lines 33-77).  out  *)
(* is the line printed last.                                               *)

\* What the user types at the prompt, after strip(): nothing, /quit or
\* /exit, /translate with a text, /generate with a prompt, any other text;
\* or the input ends (EOFError).
InputKinds == {"empty", "quit", "translate", "generate", "text", "eof"}

InteractiveStep(next, out, interrupted) ==
    /\ interactive_mode' = [pc |-> next, out |-> out, interrupted |-> interrupted]
    /\ UNCHANGED <<splitVars, jsonlVars, preVars, prepVars, train_main,
                   checkpoint_callback, early_stopping, metrics_logger,
                   evalVars>>

\* Lines 35-71 up to the call of translator.translate.
InteractiveInput(kind) ==
    /\ interactive_mode.pc = "input"
    /\ CASE kind = "empty" ->
                InteractiveStep("input", interactive_mode.out, FALSE)
         [] kind = "quit" -> InteractiveStep("done", "Goodbye!", FALSE)
         [] kind = "generate" -> InteractiveStep("input", "Generated", FALSE)
         [] kind = "eof" -> InteractiveStep("input", "Error", FALSE)
         [] OTHER -> InteractiveStep("translate", "Translating to Hirnu...", FALSE)

\* translator.translate returns and the translation is printed.
InteractiveTranslated ==
    /\ interactive_mode.pc = "translate"
    /\ InteractiveStep("input", "Hirnu", FALSE)

\* translator.translate raises: lines 76-77, and the loop goes on.
InteractiveError ==
    /\ interactive_mode.pc = "translate"
    /\ InteractiveStep("input", "Error", FALSE)

\* The user interrupts, at the prompt or during a translation: lines 73-75.
InteractiveInterrupt ==
    /\ interactive_mode.pc \in {"input", "translate"}
    /\ InteractiveStep("done", "Goodbye!", TRUE)

InteractiveNext ==
    \/ \E kind \in InputKinds : InteractiveInput(kind)
    \/ InteractiveTranslated
    \/ InteractiveError
    \/ InteractiveInterrupt

\* A run of train.py and a session of the interactive loop.
ScriptsInit ==
    /\ train_main \in
          [args : [dry_run : BOOLEAN, resume_from : BOOLEAN],
           env : [train_data : BOOLEAN, valid_data : BOOLEAN,
                  config : TrainConfigs],
           pc : {"start"}, trace : {<<>>}, exit : {Running}]
    /\ interactive_mode = InteractiveAtRest
    /\ checkpoint_callback = CheckpointAtRest
    /\ early_stopping = EarlyStoppingAtRest
    /\ metrics_logger = LoggerAtRest
    /\ metrics = MetricsAtRest
    /\ trainer = TrainerAtRest
    /\ split_ratios = DefaultRatios
    /\ examples = <<>>
    /\ rng = 0
    /\ last = NoCall
    /\ ref = NoCall
    /\ format_type = "chat"
    /\ jsonl = NoFile
    /\ saved = NoResult
    /\ report = NoResult
    /\ preprocessing_opts = DefaultOptions
    /\ raw = NoDirs
    /\ processed = NoResult
    /\ args = NoArgs
    /\ pc = "start"
    /\ trace = <<>>
    /\ exit_code = Running
    /\ outputs = NoOutputs

ScriptsNext == TrainNext \/ InteractiveNext

SpecScripts == ScriptsInit /\ [][ScriptsNext]_vars

\* Event e is in the trace of the run of train.py.
TrainDid(e) == \E k \in DOMAIN train_main.trace : train_main.trace[k] = e

\* The user interrupted the run of train.py when the latest event was e.
InterruptedAfter(e) ==
    \E k \in DOMAIN train_main.trace :
        /\ train_main.trace[k] = "KeyboardInterrupt"
        /\ k > 1
        /\ train_main.trace[k - 1] = e

\* The interrupt message of lines 119-120 directly follows the interrupt.
InterruptReported ==
    \E k \in DOMAIN train_main.trace :
        /\ train_main.trace[k] = "KeyboardInterrupt"
        /\ k + 2 <= Len(train_main.trace)
        /\ train_main.trace[k + 1] = "Training interrupted by user"
        /\ train_main.trace[k + 2] = "Checkpoints are saved in"

\* C12 as stated: an interrupt during a run of train.py is caught, reported
\* with the checkpoint directory and turned into exit code 1, and the run
\* never reports 'Training complete'; an interrupt in the interactive loop
\* ends the loop with a goodbye.
C12_InterruptCaught ==
    /\ TrainDid("KeyboardInterrupt") =>
          /\ train_main.exit = ExitReturn(1)
          /\ InterruptReported
          /\ ~TrainDid("Training complete")
    /\ interactive_mode.interrupted =>
          interactive_mode.pc = "done" /\ interactive_mode.out = "Goodbye!"

\* C12 amended: an interrupt that arrives while trainer.train() runs is
\* caught, reported and turned into exit code 1 without 'Training complete';
\* one that arrives after train() returned is caught and reported too, but
\* 'Training complete' may have been printed; one that arrives before the
\* try leaves main() as KeyboardInterrupt.  The interactive loop ends with a
\* goodbye.
C12_InterruptCaughtInTry ==
    /\ InterruptedAfter("train") =>
          /\ train_main.exit = ExitReturn(1)
          /\ InterruptReported
          /\ ~TrainDid("Training complete")
    /\ (TrainDid("KeyboardInterrupt") /\ TrainDid("train")) =>
          train_main.exit = ExitReturn(1) /\ InterruptReported
    /\ (TrainDid("KeyboardInterrupt") /\ ~TrainDid("train")) =>
          train_main.exit = ExitRaise("KeyboardInterrupt")
    /\ interactive_mode.interrupted =>
          interactive_mode.pc = "done" /\ interactive_mode.out = "Goodbye!"

\* C12 witness: the run was interrupted during trainer.train() and returned
\* 1, and the interactive loop was interrupted and ended.
C12_Witness ==
    /\ InterruptedAfter("train")
    /\ train_main.exit = ExitReturn(1)
    /\ interactive_mode.interrupted
    /\ interactive_mode.pc = "done"

\* The run of train.py has ended and the user did not interrupt it.
TrainEnded == train_main.pc = "end" /\ ~TrainDid("KeyboardInterrupt")

\* Both data files exist.
DataFilesExist == train_main.env.train_data /\ train_main.env.valid_data

\* The trainer is constructed and trained only with both data files and
\* without --dry-run; with a data file missing main() returns 1 before the
\* configuration is loaded.
C20_TrainingGuarded ==
    /\ (TrainDid("HirnuTrainer") \/ TrainDid("train")) =>
          DataFilesExist /\ ~train_main.args.dry_run
    /\ (TrainEnded /\ ~DataFilesExist) =>
          /\ train_main.exit = ExitReturn(1)
          /\ ~TrainDid("from_yaml")
          /\ ~TrainDid("HirnuTrainer")
          /\ ~TrainDid("train")

----------------------------------------------------------------------------
(* src/training/callbacks.py: CheckpointCallback.                          *)

\* Bounds: the batch numbers, the checkpoints saved in a run, keep_last_n.
MaxBatch == 3
MaxSaves == 4
MaxKeep == 3

\* _cleanup_old_checkpoints(): the list is cut to checkpoints[-keep_last_n:]
\* when it is longer than keep_last_n.
cleanup_old_checkpoints(keep_last_n, checkpoints) ==
    IF Len(checkpoints) > keep_last_n
    THEN PySlice(checkpoints, -keep_last_n, Len(checkpoints))
    ELSE checkpoints

\* on_batch_end(batch): on a multiple of save_every the checkpoint is
\* appended (_save_checkpoint) and the list cleaned up.
OnBatchEnd(batch) ==
    /\ Len(checkpoint_callback.saved) < MaxSaves
    /\ checkpoint_callback' =
          IF batch % checkpoint_callback.save_every = 0
          THEN [checkpoint_callback EXCEPT
                   !.checkpoints =
                       cleanup_old_checkpoints(checkpoint_callback.keep_last_n,
                                               Append(@, batch)),
                   !.saved = Append(@, batch)]
          ELSE checkpoint_callback
    /\ UNCHANGED <<splitVars, jsonlVars, preVars, prepVars, train_main,
                   interactive_mode, early_stopping, metrics_logger, evalVars>>

CheckpointInit ==
    /\ checkpoint_callback \in
          [save_every : {1, 2}, keep_last_n : 0..MaxKeep,
           checkpoints : {<<>>}, saved : {<<>>}]
    /\ train_main = TrainAtRest
    /\ interactive_mode = InteractiveAtRest
    /\ early_stopping = EarlyStoppingAtRest
    /\ metrics_logger = LoggerAtRest
    /\ metrics = MetricsAtRest
    /\ trainer = TrainerAtRest
    /\ split_ratios = DefaultRatios
    /\ examples = <<>>
    /\ rng = 0
    /\ last = NoCall
    /\ ref = NoCall
    /\ format_type = "chat"
    /\ jsonl = NoFile
    /\ saved = NoResult
    /\ report = NoResult
    /\ preprocessing_opts = DefaultOptions
    /\ raw = NoDirs
    /\ processed = NoResult
    /\ args = NoArgs
    /\ pc = "start"
    /\ trace = <<>>
    /\ exit_code = Running
    /\ outputs = NoOutputs

CheckpointNext == \E batch \in 0..MaxBatch : OnBatchEnd(batch)

SpecCheckpoint == CheckpointInit /\ [][CheckpointNext]_vars

\* The last n elements of a sequence (all of it when it is shorter).
LastN(seq, n) == SubSeq(seq, Len(seq) - Min(n, Len(seq)) + 1, Len(seq))

\* C16 as stated: for every keep_last_n, 0 included, the list holds at most
\* keep_last_n checkpoints, and they are the most recently saved steps in
\* the order they were saved.
C16_KeepsLastN ==
    /\ Len(checkpoint_callback.checkpoints) <= checkpoint_callback.keep_last_n
    /\ checkpoint_callback.checkpoints
          = LastN(checkpoint_callback.saved, checkpoint_callback.keep_last_n)

\* C16 holds for keep_last_n of 1 and more.
C16_KeepsLastNPositive ==
    checkpoint_callback.keep_last_n >= 1 =>
        /\ Len(checkpoint_callback.checkpoints) <= checkpoint_callback.keep_last_n
        /\ checkpoint_callback.checkpoints
              = LastN(checkpoint_callback.saved, checkpoint_callback.keep_last_n)


----------------------------------------------------------------------------
(* src/training/callbacks.py: EarlyStoppingCallback.                       *)

\* Bounds: the on_epoch_end calls of a run, the metric values, patience.
MaxEpochs == 4
MaxMetric == 2
MaxPatience == 2

Num(x) == [kind |-> "num", n |-> x]

\* _is_improvement() without min_delta.
is_improvement_no_delta(mode, min_delta, best_value, current_value) ==
    IF mode = "min"
    THEN best_value.kind = "inf"
            \/ (best_value.kind = "num" /\ current_value < best_value.n)
    ELSE best_value.kind = "-inf"
            \/ (best_value.kind = "num" /\ current_value > best_value.n)

\* _is_improvement(): current < best - min_delta for "min", otherwise
\* current > best + min_delta; best starts at plus or minus infinity.
is_improvement(mode, min_delta, best_value, current_value) ==
    IF mode = "min"
    THEN best_value.kind = "inf"
            \/ (best_value.kind = "num"
                   /\ current_value < best_value.n - min_delta)
    ELSE best_value.kind = "-inf"
            \/ (best_value.kind = "num"
                   /\ current_value > best_value.n + min_delta)

\* The logs of one on_epoch_end call: None, a dict without the metric, or a
\* dict with it.
EpochLogs ==
    {[kind |-> "None", v |-> 0], [kind |-> "other", v |-> 0]}
        \cup {[kind |-> "metric", v |-> n] : n \in 0..MaxMetric}

\* on_epoch_end(epoch, logs).
EarlyOnEpochEnd(epoch, logs) ==
    /\ Len(early_stopping.calls) < MaxEpochs
    /\ epoch = Len(early_stopping.calls) + 1
    /\ LET es == [early_stopping EXCEPT
                     !.calls = Append(@, [epoch |-> epoch, logs |-> logs])]
       IN  early_stopping' =
              IF logs.kind # "metric"
              THEN es
              ELSE IF is_improvement(es.mode, es.min_delta, es.best_value, logs.v)
                   THEN [es EXCEPT !.best_value = Num(logs.v), !.wait = 0]
                   ELSE IF es.wait + 1 >= es.patience
                        THEN [es EXCEPT !.wait = @ + 1,
                                        !.stopped_epoch = epoch,
                                        !.out = Append(@, epoch)]
                        ELSE [es EXCEPT !.wait = @ + 1]
    /\ UNCHANGED <<splitVars, jsonlVars, preVars, prepVars, train_main,
                   interactive_mode, checkpoint_callback, metrics_logger,
                   evalVars>>

EarlyInit ==
    /\ early_stopping \in
          { [patience |-> p, min_delta |-> d, mode |-> m,
             best_value |-> IF m = "min" THEN Infinity ELSE MinusInfinity,
             wait |-> 0, stopped_epoch |-> 0, out |-> <<>>, calls |-> <<>>] :
            p \in 0..MaxPatience, d \in {0, 1}, m \in {"min", "max"} }
    /\ train_main = TrainAtRest
    /\ interactive_mode = InteractiveAtRest
    /\ checkpoint_callback = CheckpointAtRest
    /\ metrics_logger = LoggerAtRest
    /\ metrics = MetricsAtRest
    /\ trainer = TrainerAtRest
    /\ split_ratios = DefaultRatios
    /\ examples = <<>>
    /\ rng = 0
    /\ last = NoCall
    /\ ref = NoCall
    /\ format_type = "chat"
    /\ jsonl = NoFile
    /\ saved = NoResult
    /\ report = NoResult
    /\ preprocessing_opts = DefaultOptions
    /\ raw = NoDirs
    /\ processed = NoResult
    /\ args = NoArgs
    /\ pc = "start"
    /\ trace = <<>>
    /\ exit_code = Running
    /\ outputs = NoOutputs

EarlyNext ==
    \E epoch \in 1..MaxEpochs, logs \in EpochLogs : EarlyOnEpochEnd(epoch, logs)

SpecEarly == EarlyInit /\ [][EarlyNext]_vars

\* What the claim speaks of, told from the calls alone: a value beats the
\* best one by more than min_delta.
Beats(mode, min_delta, best, v) ==
    \/ best.kind # "num"
    \/ (mode = "min" /\ v < best.n - min_delta)
    \/ (mode # "min" /\ v > best.n + min_delta)

\* The best value after the first n calls: the last metric that beat its
\* predecessor.
RECURSIVE BestAfter(_, _)
BestAfter(es, n) ==
    IF n = 0
    THEN IF es.mode = "min" THEN Infinity ELSE MinusInfinity
    ELSE LET logs == es.calls[n].logs
             prev == BestAfter(es, n - 1)
         IN  IF logs.kind = "metric" /\ Beats(es.mode, es.min_delta, prev, logs.v)
             THEN Num(logs.v)
             ELSE prev

\* The metric-bearing calls without improvement since the last improvement,
\* after the first n calls.
RECURSIVE StreakAfter(_, _)
StreakAfter(es, n) ==
    IF n = 0
    THEN 0
    ELSE LET logs == es.calls[n].logs
         IN  IF logs.kind # "metric"
             THEN StreakAfter(es, n - 1)
             ELSE IF Beats(es.mode, es.min_delta, BestAfter(es, n - 1), logs.v)
                  THEN 0
                  ELSE StreakAfter(es, n - 1) + 1

\* The on_epoch_end call that leads to the next state printed the message.
Triggered == early_stopping'.out # early_stopping.out

\* The call that leads to the next state carried the metric.
MetricBearing ==
    early_stopping'.calls[Len(early_stopping'.calls)].logs.kind = "metric"

\* wait is the number of consecutive metric-bearing epochs without
\* improvement since the last improvement.
C17_WaitIsStreak ==
    early_stopping.wait = StreakAfter(early_stopping, Len(early_stopping.calls))

\* An epoch without the metric leaves best_value, wait and stopped_epoch alone.
C17_SkipLeavesState ==
    ~MetricBearing =>
        /\ early_stopping'.best_value = early_stopping.best_value
        /\ early_stopping'.wait = early_stopping.wait
        /\ early_stopping'.stopped_epoch = early_stopping.stopped_epoch
        /\ ~Triggered

\* C17 as stated: wait is the number of consecutive metric-bearing epochs
\* without improvement since the last improvement, early stopping triggers
\* exactly in the (metric-bearing) epochs where wait reaches or exceeds
\* patience, and an epoch without the metric changes nothing.
C17_TriggersAtPatience ==
    /\ []C17_WaitIsStreak
    /\ [][EarlyNext => /\ C17_SkipLeavesState
                       /\ (MetricBearing =>
                              (Triggered <=>
                                  early_stopping'.wait >= early_stopping.patience))
         ]_vars

\* C17, amended: early stopping triggers exactly in the metric-bearing epochs
\* without improvement that end with wait at or above patience; wait and the
\* epochs without the metric are as stated.
C17_TriggersAtPatienceOnMiss ==
    /\ []C17_WaitIsStreak
    /\ [][EarlyNext => /\ C17_SkipLeavesState
                       /\ (Triggered <=>
                              /\ MetricBearing
                              /\ early_stopping'.wait = early_stopping.wait + 1
                              /\ early_stopping'.wait >= early_stopping.patience)
                       /\ (Triggered =>
                              early_stopping'.stopped_epoch
                                  = Len(early_stopping'.calls))
         ]_vars

\* A run where an improvement, a miss that triggers, an epoch without the
\* metric and a further improvement have all happened, with min_delta at work.
C17_Witness ==
    /\ early_stopping.patience = 1
    /\ early_stopping.min_delta = 1
    /\ Len(early_stopping.calls) = 4
    /\ early_stopping.calls[1].logs = [kind |-> "metric", v |-> 2]
    /\ early_stopping.calls[2].logs = [kind |-> "metric", v |-> 1]
    /\ early_stopping.calls[3].logs.kind = "None"
    /\ early_stopping.calls[4].logs = [kind |-> "metric", v |-> 0]
    /\ early_stopping.mode = "min"
    /\ early_stopping.out = <<2>>
    /\ early_stopping.wait = 0
    /\ early_stopping.best_value = Num(0)


----------------------------------------------------------------------------
(* src/training/callbacks.py: MetricsLogger.                               *)

\* Bound: the calls made on one logger.
MaxCalls == 3

\* A dict passed as logs, and a datetime.
Dict(items) == [kind |-> "dict", d |-> items]
Time(t) == [kind |-> "datetime", d |-> t]

\* The logs a caller passes: None, an empty dict, a dict with a metric.
CallerLogs == {None, Dict(<<>>), Dict(<<Item("loss", 1)>>)}
LogNumbers == {0, 1}

\* _log_event() opening metrics.jsonl for writing instead of appending.
log_event_truncating(file, now, event_type, logs) ==
    <<[timestamp |-> now, event |-> event_type,
       data |-> IF logs = None THEN <<>> ELSE logs.d]>>

\* _log_event(): one line {"timestamp", "event", "data": logs or {}} is
\* appended to metrics.jsonl.
log_event(file, now, event_type, logs) ==
    Append(file, [timestamp |-> now, event |-> event_type,
                  data |-> IF logs = None THEN <<>> ELSE logs.d])

\* One call on the logger: the clock is read reads times, the last reading
\* being the timestamp of the record.
LoggerStep(call, start, reads, event_type, logs) ==
    /\ Len(metrics_logger.calls) < MaxCalls
    /\ metrics_logger' =
          [start_time |-> start,
           now |-> metrics_logger.now + reads,
           metrics_file |-> log_event(metrics_logger.metrics_file,
                                      metrics_logger.now + reads,
                                      event_type, logs),
           calls |-> Append(metrics_logger.calls, call)]
    /\ UNCHANGED <<splitVars, jsonlVars, preVars, prepVars, train_main,
                   interactive_mode, checkpoint_callback, early_stopping,
                   evalVars>>

\* logs with logs[key] = value, an empty dict taking the place of None.
LogsWith(logs, key, value) ==
    Dict(DictSet(IF logs = None THEN <<>> ELSE logs.d, key, value))

\* on_train_begin(logs).
LoggerOnTrainBegin(logs) ==
    LoggerStep([event |-> "train_begin", n |-> 0, logs |-> logs],
               Time(metrics_logger.now + 1), 2, "train_begin", logs)

\* on_train_end(logs): the duration is added when start_time is set.
LoggerOnTrainEnd(logs) ==
    IF metrics_logger.start_time # None
    THEN LoggerStep([event |-> "train_end", n |-> 0, logs |-> logs],
                    metrics_logger.start_time, 2, "train_end",
                    LogsWith(logs, "training_duration_seconds",
                             metrics_logger.now + 1
                                 - metrics_logger.start_time.d))
    ELSE LoggerStep([event |-> "train_end", n |-> 0, logs |-> logs],
                    metrics_logger.start_time, 1, "train_end", logs)

\* on_epoch_end(epoch, logs).
LoggerOnEpochEnd(epoch, logs) ==
    LoggerStep([event |-> "epoch_end", n |-> epoch, logs |-> logs],
               metrics_logger.start_time, 1, "epoch_end",
               LogsWith(logs, "epoch", epoch))

\* on_batch_end(batch, logs).
LoggerOnBatchEnd(batch, logs) ==
    LoggerStep([event |-> "batch_end", n |-> batch, logs |-> logs],
               metrics_logger.start_time, 1, "batch_end",
               LogsWith(logs, "batch", batch))

LoggerInit ==
    /\ metrics_logger = LoggerAtRest
    /\ metrics = MetricsAtRest
    /\ trainer = TrainerAtRest
    /\ train_main = TrainAtRest
    /\ interactive_mode = InteractiveAtRest
    /\ checkpoint_callback = CheckpointAtRest
    /\ early_stopping = EarlyStoppingAtRest
    /\ split_ratios = DefaultRatios
    /\ examples = <<>>
    /\ rng = 0
    /\ last = NoCall
    /\ ref = NoCall
    /\ format_type = "chat"
    /\ jsonl = NoFile
    /\ saved = NoResult
    /\ report = NoResult
    /\ preprocessing_opts = DefaultOptions
    /\ raw = NoDirs
    /\ processed = NoResult
    /\ args = NoArgs
    /\ pc = "start"
    /\ trace = <<>>
    /\ exit_code = Running
    /\ outputs = NoOutputs

LoggerNext ==
    \/ \E logs \in CallerLogs : LoggerOnTrainBegin(logs)
    \/ \E logs \in CallerLogs : LoggerOnTrainEnd(logs)
    \/ \E epoch \in LogNumbers, logs \in CallerLogs : LoggerOnEpochEnd(epoch, logs)
    \/ \E batch \in LogNumbers, logs \in CallerLogs : LoggerOnBatchEnd(batch, logs)

SpecLogger == LoggerInit /\ [][LoggerNext]_vars

\* on_train_begin was called among the first n calls.
BegunBefore(n) ==
    \E j \in 1..n : metrics_logger.calls[j].event = "train_begin"

\* Record i is the record of call i: its event, the caller's logs, and the
\* duration in a train_end record exactly when training had begun.
RecordOfCall(i) ==
    LET rec == metrics_logger.metrics_file[i]
        call == metrics_logger.calls[i]
    IN  /\ rec.event = call.event
        /\ \A k \in DOMAIN call.logs.d :
               \E m \in DOMAIN rec.data : rec.data[m] = call.logs.d[k]
        /\ (call.event = "train_end" =>
               (HasKey(rec.data, "training_duration_seconds")
                   <=> BegunBefore(i - 1)))
        /\ (call.event = "epoch_end" =>
               /\ HasKey(rec.data, "epoch")
               /\ GetKey(rec.data, "epoch") = call.n)
        /\ (call.event = "batch_end" =>
               /\ HasKey(rec.data, "batch")
               /\ GetKey(rec.data, "batch") = call.n)

\* The records are those of the calls, in the order of the calls.
C18_RecordsFollowCalls ==
    /\ Len(metrics_logger.metrics_file) = Len(metrics_logger.calls)
    /\ \A i \in DOMAIN metrics_logger.calls : RecordOfCall(i)

\* C18: each call appends exactly one record to metrics.jsonl, the records
\* already written stay as they are, the records are in the order of the
\* calls, and a train_end record carries training_duration_seconds exactly
\* when on_train_begin was called earlier.
C18_AppendOnly ==
    /\ []C18_RecordsFollowCalls
    /\ [][LoggerNext =>
            /\ Len(metrics_logger'.metrics_file)
                  = Len(metrics_logger.metrics_file) + 1
            /\ SubSeq(metrics_logger'.metrics_file, 1,
                      Len(metrics_logger.metrics_file))
                  = metrics_logger.metrics_file
         ]_vars

\* A train_end before any train_begin (no duration), then a train_begin and
\* a train_end with the duration.
C18_Witness ==
    /\ Len(metrics_logger.metrics_file) = 3
    /\ metrics_logger.calls[1].event = "train_end"
    /\ metrics_logger.calls[2].event = "train_begin"
    /\ metrics_logger.calls[3].event = "train_end"
    /\ metrics_logger.calls[3].logs = None
    /\ metrics_logger.metrics_file[1].data = <<>>
    /\ HasKey(metrics_logger.metrics_file[3].data, "training_duration_seconds")


----------------------------------------------------------------------------
(* src/evaluation/metrics.py: HirnuMetrics and TranslationMetrics.  A text *)
(* is the sequence of its characters; a float is kept as the exact         *)
(* fraction num/den it was computed from.                                  *)

\* Bound: the length of the lists handed to a metric.
MaxList == 2

\* The texts of predictions and references: empty, one character, two
\* characters, two words.
Texts == {<<>>, <<"a">>, <<"a", "b">>, <<"b", " ", "a">>}

Float(n, d) == [kind |-> "float", num |-> n, den |-> d]

ValueError == [kind |-> "ValueError"]

ZeroDivisionError == [kind |-> "ZeroDivisionError"]

\* Lines 70-71: the positions where zip(pred, ref) differs, plus the
\* difference of the lengths.
char_errors(prediction, reference) ==
    Cardinality({i \in 1..Min(Len(prediction), Len(reference)) :
                    prediction[i] # reference[i]})
        + Abs(Len(prediction) - Len(reference))

\* total_chars and total_errors after the first n pairs of the loop.
RECURSIVE TotalChars(_, _)
TotalChars(references, n) ==
    IF n = 0 THEN 0 ELSE TotalChars(references, n - 1) + Len(references[n])

RECURSIVE TotalErrors(_, _, _)
TotalErrors(predictions, references, n) ==
    IF n = 0 THEN 0
    ELSE TotalErrors(predictions, references, n - 1)
            + char_errors(predictions[n], references[n])

\* HirnuMetrics.character_error_rate(predictions, references).
character_error_rate(predictions, references) ==
    IF Len(predictions) # Len(references)
    THEN ValueError
    ELSE LET total_chars == TotalChars(references, Len(references))
             total_errors == TotalErrors(predictions, references,
                                         Len(references))
         IN  IF total_chars > 0 THEN Float(total_errors, total_chars)
                                ELSE Float(0, 1)

\* A call of character_error_rate on the lists at hand.
CharacterErrorRate ==
    /\ metrics' = [metrics EXCEPT !.outcome =
                      [call |-> "character_error_rate",
                       value |-> character_error_rate(metrics.predictions,
                                                      metrics.references)]]
    /\ UNCHANGED <<splitVars, jsonlVars, preVars, prepVars, train_main,
                   interactive_mode, checkpoint_callback, early_stopping,
                   metrics_logger, trainer>>


\* str.split(): the words of a text, cut at runs of whitespace.  word is the
\* word being read from position i on, words those read before.
RECURSIVE SplitFrom(_, _, _, _)
SplitFrom(text, i, word, words) ==
    IF i > Len(text)
    THEN IF word = <<>> THEN words ELSE Append(words, word)
    ELSE IF IsSpace(text[i])
         THEN SplitFrom(text, i + 1, <<>>,
                        IF word = <<>> THEN words ELSE Append(words, word))
         ELSE SplitFrom(text, i + 1, Append(word, text[i]), words)

Split(text) == SplitFrom(text, 1, <<>>, <<>>)

\* Line 115: the words that zip(pred_words, ref_words) pairs and finds equal.
correct_words(pred_words, ref_words) ==
    Cardinality({i \in 1..Min(Len(pred_words), Len(ref_words)) :
                    pred_words[i] = ref_words[i]})

\* HirnuMetrics.word_accuracy on one prediction and one reference, as
\* evaluate_translation calls it.
word_accuracy(prediction, reference) ==
    LET ref_words == Split(reference)
    IN  IF Len(ref_words) > 0
        THEN Float(correct_words(Split(prediction), ref_words), Len(ref_words))
        ELSE Float(0, 1)

\* TranslationMetrics.evaluate_translation.
evaluate_translation(english_input, hirnu_prediction, hirnu_reference) ==
    [exact_match |->
         IF hirnu_prediction = hirnu_reference THEN Float(1, 1) ELSE Float(0, 1),
     character_error_rate |->
         character_error_rate(<<hirnu_prediction>>, <<hirnu_reference>>),
     word_accuracy |-> word_accuracy(hirnu_prediction, hirnu_reference)]

\* a + b and a / n on fractions.
FloatAdd(a, b) == Float(a.num * b.den + b.num * a.den, a.den * b.den)

FloatDiv(a, n) == Float(a.num, a.den * n)

\* sum(m[key] for m in all_metrics) over the first n entries.
RECURSIVE SumOf(_, _, _)
SumOf(all_metrics, key, n) ==
    IF n = 0 THEN Float(0, 1)
    ELSE FloatAdd(SumOf(all_metrics, key, n - 1), all_metrics[n][key])

\* TranslationMetrics.evaluate_batch: ValueError on lists of different
\* lengths; the sums are divided by len(all_metrics).
evaluate_batch(english_inputs, hirnu_predictions, hirnu_references) ==
    IF ~(Len(english_inputs) = Len(hirnu_predictions)
            /\ Len(hirnu_predictions) = Len(hirnu_references))
    THEN ValueError
    ELSE LET all_metrics ==
                 [i \in 1..Len(english_inputs) |->
                     evaluate_translation(english_inputs[i],
                                          hirnu_predictions[i],
                                          hirnu_references[i])]
             n == Len(all_metrics)
         IN  IF n = 0
             THEN ZeroDivisionError
             ELSE [kind |-> "dict",
                   exact_match_rate |->
                       FloatDiv(SumOf(all_metrics, "exact_match", n), n),
                   avg_character_error_rate |->
                       FloatDiv(SumOf(all_metrics, "character_error_rate", n), n),
                   avg_word_accuracy |->
                       FloatDiv(SumOf(all_metrics, "word_accuracy", n), n)]

\* A call of evaluate_batch on the lists at hand.
EvaluateBatch ==
    /\ metrics' = [metrics EXCEPT !.outcome =
                      [call |-> "evaluate_batch",
                       value |-> evaluate_batch(metrics.english_inputs,
                                                metrics.predictions,
                                                metrics.references)]]
    /\ UNCHANGED <<splitVars, jsonlVars, preVars, prepVars, train_main,
                   interactive_mode, checkpoint_callback, early_stopping,
                   metrics_logger, trainer>>

\* The lists of up to MaxList texts a caller may hand over.
MetricsInit ==
    /\ metrics \in
          [english_inputs : SeqsUpTo({<<"x">>}, MaxList),
           predictions : SeqsUpTo(Texts, MaxList),
           references : SeqsUpTo(Texts, MaxList),
           outcome : {NoResult}]
    /\ trainer = TrainerAtRest
    /\ train_main = TrainAtRest
    /\ interactive_mode = InteractiveAtRest
    /\ checkpoint_callback = CheckpointAtRest
    /\ early_stopping = EarlyStoppingAtRest
    /\ metrics_logger = LoggerAtRest
    /\ split_ratios = DefaultRatios
    /\ examples = <<>>
    /\ rng = 0
    /\ last = NoCall
    /\ ref = NoCall
    /\ format_type = "chat"
    /\ jsonl = NoFile
    /\ saved = NoResult
    /\ report = NoResult
    /\ preprocessing_opts = DefaultOptions
    /\ raw = NoDirs
    /\ processed = NoResult
    /\ args = NoArgs
    /\ pc = "start"
    /\ trace = <<>>
    /\ exit_code = Running
    /\ outputs = NoOutputs

MetricsNext == CharacterErrorRate \/ EvaluateBatch

SpecMetrics == MetricsInit /\ [][MetricsNext]_vars

\* The outcome at hand is that of a call of the metric named.
Called(name) == metrics.outcome # NoResult /\ metrics.outcome.call = name

\* The characters of all references.
ReferenceChars == TotalChars(metrics.references, Len(metrics.references))

\* C21 as stated: character_error_rate returns a value between 0 and 1 for
\* lists of equal length, 0.0 when the references hold no characters, and
\* raises ValueError when the lists differ in length.
C21_RateInUnitRange ==
    Called("character_error_rate") =>
        LET r == metrics.outcome.value
        IN  IF Len(metrics.predictions) # Len(metrics.references)
            THEN r = ValueError
            ELSE /\ r.kind = "float"
                 /\ 0 <= r.num
                 /\ r.num <= r.den
                 /\ (ReferenceChars = 0 => r.num = 0)

\* C21, what holds: the rate is never negative, is 0.0 without reference
\* characters, is at most 1 when no prediction is longer than its
\* reference, and unequal lengths raise ValueError.
C21_RateNonNegative ==
    Called("character_error_rate") =>
        LET r == metrics.outcome.value
        IN  IF Len(metrics.predictions) # Len(metrics.references)
            THEN r = ValueError
            ELSE /\ r.kind = "float"
                 /\ 0 <= r.num
                 /\ r.den > 0
                 /\ (ReferenceChars = 0 => r.num = 0)
                 /\ (\A i \in DOMAIN metrics.predictions :
                        Len(metrics.predictions[i]) <= Len(metrics.references[i]))
                       => r.num <= r.den


\* The three lists at hand have the same length.
SameLengths ==
    /\ Len(metrics.english_inputs) = Len(metrics.predictions)
    /\ Len(metrics.predictions) = Len(metrics.references)

\* Two fractions are the same number.
FloatEq(a, b) == a.num * b.den = b.num * a.den

\* The per-example values of the lists at hand.
PerExample ==
    [i \in DOMAIN metrics.predictions |->
        evaluate_translation(metrics.english_inputs[i], metrics.predictions[i],
                             metrics.references[i])]

\* value is the mean of the per-example values of key: value times the
\* number of examples is their sum.
MeanOfExamples(value, key) ==
    FloatEq(Float(value.num * Len(metrics.predictions), value.den),
            SumOf(PerExample, key, Len(metrics.predictions)))

\* The outcome r is the dictionary of the three means.
AggregatedMeans(r) ==
    /\ r.kind = "dict"
    /\ MeanOfExamples(r.exact_match_rate, "exact_match")
    /\ MeanOfExamples(r.avg_character_error_rate, "character_error_rate")
    /\ MeanOfExamples(r.avg_word_accuracy, "word_accuracy")
    /\ FloatEq(r.exact_match_rate,
               Float(Cardinality({i \in DOMAIN metrics.predictions :
                         metrics.predictions[i] = metrics.references[i]}),
                     Len(metrics.predictions)))

\* C22 as stated: evaluate_batch raises ValueError exactly when the three
\* lists differ in length, and for all lists of equal length, three empty
\* lists included, returns the dictionary of the three means.
C22_BatchReturnsMeans ==
    Called("evaluate_batch") =>
        IF SameLengths
        THEN metrics.outcome.value.kind = "dict"
                /\ (metrics.predictions # <<>> =>
                       AggregatedMeans(metrics.outcome.value))
        ELSE metrics.outcome.value = ValueError

\* C22, what holds: ValueError exactly on lists of different lengths, the
\* dictionary of the means on non-empty lists of equal length, and
\* ZeroDivisionError on three empty lists.
C22_BatchReturnsMeansUnlessEmpty ==
    Called("evaluate_batch") =>
        IF ~SameLengths
        THEN metrics.outcome.value = ValueError
        ELSE IF metrics.predictions = <<>>
             THEN metrics.outcome.value = ZeroDivisionError
             ELSE AggregatedMeans(metrics.outcome.value)


----------------------------------------------------------------------------
(* src/training/trainer.py: HirnuTrainer.calculate_total_iterations.       *)

\* Bounds: the lines of the training file, batch_size, num_epochs.
MaxFileLines == 6
MaxBatchSize == 4
MaxNumEpochs == 3

\* Line 190: the number of examples assumed when the file cannot be read.
FallbackExamples == 220

\* Line 193 without max(1, ...).
iters_per_epoch_unfloored(num_examples, batch_size) ==
    num_examples \div batch_size

\* Line 193: max(1, num_examples // batch_size).
iters_per_epoch(num_examples, batch_size) ==
    Max(1, num_examples \div batch_size)

\* calculate_total_iterations(): the lines of the training file are counted
\* (220 when open or reading fails); a batch_size of 0 raises
\* ZeroDivisionError at line 193.
calculate_total_iterations(train_file, batch_size, num_epochs) ==
    LET num_examples == IF train_file.readable THEN train_file.count
                                               ELSE FallbackExamples
    IN  IF batch_size = 0
        THEN ZeroDivisionError
        ELSE [kind |-> "int",
              total_iters |-> iters_per_epoch(num_examples, batch_size)
                                  * num_epochs]

\* A call of calculate_total_iterations on the trainer at hand.
CalculateTotalIterations ==
    /\ trainer' = [trainer EXCEPT !.outcome =
                      calculate_total_iterations(trainer.train_file,
                                                 trainer.batch_size,
                                                 trainer.num_epochs)]
    /\ UNCHANGED <<splitVars, jsonlVars, preVars, prepVars, train_main,
                   interactive_mode, checkpoint_callback, early_stopping,
                   metrics_logger, metrics>>

\* The training files: unreadable, or readable with up to MaxFileLines lines.
TrainFiles ==
    {[readable |-> FALSE, count |-> 0]}
        \cup {[readable |-> TRUE, count |-> n] : n \in 0..MaxFileLines}

TrainerInit ==
    /\ trainer \in
          [train_file : TrainFiles, batch_size : 0..MaxBatchSize,
           num_epochs : 0..MaxNumEpochs, outcome : {NoResult}]
    /\ metrics = MetricsAtRest
    /\ train_main = TrainAtRest
    /\ interactive_mode = InteractiveAtRest
    /\ checkpoint_callback = CheckpointAtRest
    /\ early_stopping = EarlyStoppingAtRest
    /\ metrics_logger = LoggerAtRest
    /\ split_ratios = DefaultRatios
    /\ examples = <<>>
    /\ rng = 0
    /\ last = NoCall
    /\ ref = NoCall
    /\ format_type = "chat"
    /\ jsonl = NoFile
    /\ saved = NoResult
    /\ report = NoResult
    /\ preprocessing_opts = DefaultOptions
    /\ raw = NoDirs
    /\ processed = NoResult
    /\ args = NoArgs
    /\ pc = "start"
    /\ trace = <<>>
    /\ exit_code = Running
    /\ outputs = NoOutputs

TrainerNext == CalculateTotalIterations

SpecTrainer == TrainerInit /\ [][TrainerNext]_vars

\* n: the lines of the training file, or 220 when it cannot be read.
CountedExamples ==
    IF trainer.train_file.readable THEN trainer.train_file.count
                                   ELSE FallbackExamples

\* q is n div b: the largest q with q * b <= n.
IsQuotient(q, n, b) == q * b <= n /\ n < (q + 1) * b

\* C23: calculate_total_iterations returns max(1, n div batch_size) *
\* num_epochs, n being the lines of the training file, or 220 when the file
\* cannot be read; so with batch_size >= 1 the result is at least
\* num_epochs, an empty file included.
C23_TotalIterations ==
    (trainer.outcome # NoResult /\ trainer.batch_size >= 1) =>
        /\ trainer.outcome.kind = "int"
        /\ \E q \in 0..CountedExamples :
              /\ IsQuotient(q, CountedExamples, trainer.batch_size)
              /\ trainer.outcome.total_iters
                    = (IF q >= 1 THEN q ELSE 1) * trainer.num_epochs
        /\ trainer.outcome.total_iters >= trainer.num_epochs

\* An empty training file, or one shorter than a batch: one iteration for
\* each epoch.
C23_Witness ==
    /\ trainer.train_file.readable
    /\ trainer.train_file.count < trainer.batch_size
    /\ trainer.num_epochs >= 2
    /\ trainer.outcome # NoResult
    /\ trainer.outcome.kind = "int"
    /\ trainer.outcome.total_iters = trainer.num_epochs

=============================================================================
